---- MODULE Spec2Model ----
(***************************************************************************)
(* Canvas planner: the client-side optimistic-sync engine of Canvas.tsx    *)
(* against the Convex store (convex/nodes.ts), the connector placement,    *)
(* the two-phase node-creation gesture and the time-until-ready            *)
(* calculator.                                                             *)
(*                                                                         *)
(* Numbers.  JavaScript numbers are modelled as exact rationals: a time    *)
(* is an integer count of minutes, a connector position is a fraction      *)
(* <<num, den>> of the side, a coordinate is an integer count of quarter   *)
(* units.  Floating-point rounding error is outside the model.             *)
(***************************************************************************)
EXTENDS Integers, Sequences, FiniteSets, TLC

VARIABLES
    dbNodes,        \* the store's nodes table, in creation order
    dbEdges,        \* the store's edges table, in creation order
    nodesDirty,     \* the nodes table was written since getAll last delivered
    edgesDirty,     \* the edges table was written since getAll last delivered
    nextId,       \* number of document ids the store has assigned
    convexNodes,    \* useQuery(api.nodes.getAll): None while loading, else Some(snapshot)
    convexEdges,    \* useQuery(api.edges.getAll): None while loading, else Some(snapshot)
    nodes,          \* local ReactFlow nodes (useNodesState)
    edges,          \* local ReactFlow edges (useEdgesState)
    pendingOperationsRef,     \* Map nodeId -> [type, data]
    lastSyncedConvexDataRef,  \* None, or Some(hash of the last processed snapshot)
    conflictDetected,         \* the conflict banner (and conflictDetectedRef)
    conflictWarnings,         \* output of the last step: node ids of its conflict warnings
    inflight,       \* this client's store calls awaiting their result, oldest first
    toastError,     \* output of the last step: None, or Some(message) passed to toastError
    lastLocal,      \* history: node id -> <<field, value>> of its latest local mutation
    clockPopup,     \* open clock popups: node id |-> time-until-ready shown (tenths)
    now,            \* Date.now() of this client, in ticks
    dragState,      \* None, or Some([startX, startY, currentX, currentY]) while drawing
    connectorPlacement, \* None, or Some(placement) in the connector placement phase
    localStorage,   \* localStorage item "canvas-session": None, or Some(text)
    sessionReturned, \* history: what each getOrCreateSession call returned, in order
    storageAccess,  \* "available", "denied" (reading localStorage throws) or "no window"
    session,        \* peer -> None, or Some(session): the `session` state of its canvas
    cursors,        \* peer -> the `cursors` state of its canvas, an array of cursor data
    relayCursors,   \* server.js `cursors` Map, in insertion order
    sockets,        \* peer -> "none", "connecting", "connected", "closing" or "closed"
    toServer,       \* peer -> events its socket emitted that the relay has not handled
    toClient,       \* peer -> events the relay sent it that its canvas has not handled
    samples,        \* number of cursor samples emitted so far
    retryOpts,      \* retryWithBackoff: its options and the behaviour of fn
    retryPc,        \* retryWithBackoff: "idle", "calling", "waiting", "resolved", "rejected"
    attempt,        \* retryWithBackoff: the loop counter
    fnCalls,        \* history: the outcome of each call of fn, in order
    onRetryCalls,   \* history: the arguments <<error, attempt>> of each onRetry call
    delays,         \* history: the delay of each wait, in ms
    settled         \* None, or Some(value or error) the returned promise settled with

storeVars == <<dbNodes, dbEdges, nodesDirty, edgesDirty, nextId>>
queryVars == <<convexNodes, convexEdges>>
localVars == <<nodes, edges>>
trackVars == <<pendingOperationsRef, lastSyncedConvexDataRef, conflictDetected, lastLocal>>
callVars  == <<inflight>>
outVars   == <<toastError, conflictWarnings>>
uiVars    == <<now, dragState, connectorPlacement>>
sessionVars == <<localStorage, sessionReturned, storageAccess>>
presenceVars == <<session, cursors, relayCursors, sockets, toServer, toClient, samples>>
retryVars == <<retryOpts, retryPc, attempt, fnCalls, onRetryCalls, delays, settled>>

vars == <<dbNodes, dbEdges, nodesDirty, edgesDirty, nextId, convexNodes, convexEdges,
          nodes, edges, pendingOperationsRef, lastSyncedConvexDataRef, conflictDetected,
          conflictWarnings, inflight, toastError, lastLocal, clockPopup, now, dragState,
          connectorPlacement, localStorage, sessionReturned, storageAccess, session,
          cursors, relayCursors, sockets, toServer, toClient, samples, retryOpts,
          retryPc, attempt, fnCalls, onRetryCalls, delays, settled>>

----------------------------------------------------------------------------
(* Optional values: undefined is the empty sequence, a value v is <<v>>.   *)
Undefined == "undefined"
None == <<>>
Some(v) == <<v>>
IsSome(o) == o /= <<>>
OrElse(o, d) == IF o = <<>> THEN d ELSE o[1]
(* value || default for an optional string *)
OrDefault(v, d) == IF v = Undefined THEN d ELSE v

(* The canvases that share the relay *)
Peers == {"p1", "p2", "p3"}

(* No canvas is mounted and the relay holds no cursor *)
InitPresenceIdle ==
    /\ storageAccess = "available"
    /\ session = [p \in Peers |-> None]
    /\ cursors = [p \in Peers |-> <<>>]
    /\ relayCursors = <<>>
    /\ sockets = [p \in Peers |-> "none"]
    /\ toServer = [p \in Peers |-> <<>>]
    /\ toClient = [p \in Peers |-> <<>>]
    /\ samples = 0

(* retryWithBackoff has not been called *)
InitRetryIdle ==
    /\ retryOpts = None /\ retryPc = "idle" /\ attempt = 0
    /\ fnCalls = <<>> /\ onRetryCalls = <<>> /\ delays = <<>> /\ settled = None

Max2(a, b) == IF a >= b THEN a ELSE b
Min2(a, b) == IF a <= b THEN a ELSE b
(* Mutant of Abs: the difference is taken with its sign. *)
Abs_Signed(a) == a
Abs(a) == IF a >= 0 THEN a ELSE -a

RECURSIVE SumOfSeq(_)
(* Mutant of MaxOfSeq: the dependency times are added up. *)
SumOfSeq(s) ==
    IF Len(s) = 1 THEN s[1] ELSE s[1] + SumOfSeq(Tail(s))

RECURSIVE MaxOfSeq(_)
(* Math.max(...array) of a non-empty array of numbers. *)
MaxOfSeq(s) ==
    IF Len(s) = 1 THEN s[1] ELSE Max2(s[1], MaxOfSeq(Tail(s)))

SeqRange(s) == {s[i] : i \in 1..Len(s)}

(* a step that calls neither toastError nor console.warn for a conflict *)
Silent == toastError' = None /\ conflictWarnings' = {}

----------------------------------------------------------------------------
(* Time-until-ready calculator (Canvas.tsx, calculateTimeUntilReady).      *)

Statuses == {"not ready", "can start", "in progress", "complete"}
TimeUnits == {"minutes", "hours", "days", "weeks"}

MinutesPerHour == 60

(* toHours: the result is kept as an integer count of minutes, so          *)
(* time / 60 hours is `time` minutes and time hours is 60 * time minutes.  *)
toHours(time, unit) ==
    CASE unit = "minutes" -> time
      [] unit = "hours"   -> time * MinutesPerHour
      [] unit = "days"    -> time * 24 * MinutesPerHour
      [] unit = "weeks"   -> time * 24 * 7 * MinutesPerHour
      [] OTHER            -> time * MinutesPerHour

(* fromHours: the value of `hours` (a count of minutes) in the target unit *)
(* as the fraction <<numerator, denominator>>.                             *)
fromHours(hours, unit) ==
    CASE unit = "minutes" -> <<hours * 60, MinutesPerHour>>
      [] unit = "hours"   -> <<hours, MinutesPerHour>>
      [] unit = "days"    -> <<hours, 24 * MinutesPerHour>>
      [] unit = "weeks"   -> <<hours, 24 * 7 * MinutesPerHour>>
      [] OTHER            -> <<hours, MinutesPerHour>>

(* Math.round(q * 10) / 10 for q = num/den >= 0, as a count of tenths.     *)
RoundTenths(q) == (2 * 10 * q[1] + q[2]) \div (2 * q[2])

(* nodes.find(n => n._id === id): the index of the first match, 0 if none *)
FindNode(ns, id) ==
    IF \E i \in 1..Len(ns) : ns[i]._id = id
    THEN CHOOSE i \in 1..Len(ns) : ns[i]._id = id /\ \A j \in 1..(i-1) : ns[j]._id /= id
    ELSE 0

(* The incomplete dependencies of a node: the sources of its incoming     *)
(* edges, in edge order, that exist and are not complete.                  *)
IncompleteDependencies(ns, es, id) ==
    LET incoming == SelectSeq(es, LAMBDA e : e.target = id)
        found == SelectSeq(incoming, LAMBDA e : FindNode(ns, e.source) /= 0)
        deps == [i \in 1..Len(found) |-> ns[FindNode(ns, found[i].source)]]
    IN  SelectSeq(deps, LAMBDA n : n.status /= "complete")

RECURSIVE calculateTimeToComplete(_, _, _, _)
calculateTimeToComplete(ns, es, currentNodeId, path) ==
    IF currentNodeId \in path THEN 0
    ELSE IF FindNode(ns, currentNodeId) = 0 THEN 0
    ELSE LET currentNode == ns[FindNode(ns, currentNodeId)] IN
         IF currentNode.status = "complete" THEN 0
         ELSE LET incomplete == IncompleteDependencies(ns, es, currentNodeId)
                  newPath == path \cup {currentNodeId}
                  times == [i \in 1..Len(incomplete) |->
                              calculateTimeToComplete(ns, es, incomplete[i]._id, newPath)]
                  maxDependencyTime == IF Len(incomplete) > 0 THEN MaxOfSeq(times) ELSE 0
                  ownTimeEstimate == OrElse(currentNode.timeEstimate, 0)
                  ownTimeUnit == OrDefault(currentNode.timeUnit, "hours")
              IN  maxDependencyTime + toHours(ownTimeEstimate, ownTimeUnit)

(* The critical path into nodeId, in minutes. *)
TimeInHours(ns, es, nodeId) ==
    LET incomplete == IncompleteDependencies(ns, es, nodeId)
        times == [i \in 1..Len(incomplete) |->
                    calculateTimeToComplete(ns, es, incomplete[i]._id, {})]
    IN  MaxOfSeq(times)

(* Mutant of calculateTimeUntilReady: the test of the target's own status  *)
(* is missing.                                                             *)
calculateTimeUntilReady_NoStatusTest(ns, es, nodeId) ==
    IF FindNode(ns, nodeId) = 0 THEN 0
    ELSE LET targetNode == ns[FindNode(ns, nodeId)] IN
         IF Len(IncompleteDependencies(ns, es, nodeId)) = 0 THEN 0
         ELSE RoundTenths(fromHours(TimeInHours(ns, es, nodeId),
                                    OrDefault(targetNode.timeUnit, "hours")))

(* calculateTimeUntilReady: the result in tenths of the target's unit.     *)
calculateTimeUntilReady(ns, es, nodeId) ==
    IF FindNode(ns, nodeId) = 0 THEN 0
    ELSE LET targetNode == ns[FindNode(ns, nodeId)] IN
         IF targetNode.status = "complete" THEN 0
         ELSE IF Len(IncompleteDependencies(ns, es, nodeId)) = 0 THEN 0
         ELSE RoundTenths(fromHours(TimeInHours(ns, es, nodeId),
                                    OrDefault(targetNode.timeUnit, "hours")))

(* handleClockClick: toggle the popup of node n; on opening, the value     *)
(* shown is calculateTimeUntilReady over the delivered snapshots.          *)
ClockClick(n) ==
    /\ convexNodes /= None /\ convexEdges /= None
    /\ FindNode(convexNodes[1], n) /= 0
    /\ IF n \in DOMAIN clockPopup
       THEN clockPopup' = [m \in DOMAIN clockPopup \ {n} |-> clockPopup[m]]
       ELSE clockPopup' = [m \in DOMAIN clockPopup \cup {n} |->
                IF m = n THEN calculateTimeUntilReady(convexNodes[1], convexEdges[1], n)
                ELSE clockPopup[m]]
    /\ Silent
    /\ UNCHANGED <<storeVars, queryVars, localVars, trackVars, callVars, uiVars,
                   sessionVars, presenceVars, retryVars>>

----------------------------------------------------------------------------
(* The store (convex/nodes.ts) and the client's view of it.                *)

CANVAS_MIN_X == -5000
CANVAS_MAX_X == 5000
CANVAS_MIN_Y == -5000
CANVAS_MAX_Y == 5000

(* Coordinates are integer counts of 1/CoordUnit canvas units, so that     *)
(* 10.5 is representable.                                                  *)
CoordUnit == 4

(* The position tolerance of the conflict check: Math.abs(..) > 1.         *)
PositionTolerance == 1 * CoordUnit

NodeIdSeq == <<"n1", "n2", "n3", "n4">>

(* the row ctx.db.insert("nodes", args) stores for createNode's arguments *)
StoredNode(id, x, y, width, height, connectors) ==
    [_id |-> id, x |-> x, y |-> y, width |-> width, height |-> height,
     text |-> "New Node", description |-> Undefined, status |-> "not ready",
     timeEstimate |-> None, timeUnit |-> Undefined, connectors |-> connectors]

DbIndex(id) == FindNode(dbNodes, id)
DbHas(id) == DbIndex(id) /= 0

(* ctx.db.patch(id, {field: value}) *)
DbPatch(id, field, value) ==
    [dbNodes EXCEPT ![DbIndex(id)] = [@ EXCEPT ![field] = value]]

(* ctx.db.patch(id, {x, y}) *)
DbPatchPosition(id, x, y) ==
    [dbNodes EXCEPT ![DbIndex(id)] = [@ EXCEPT !.x = x, !.y = y]]

(* The fields of a snapshot that the sync effect hashes with              *)
(* JSON.stringify: width and height are not among them.                    *)
ConvexDataHash(snapshot) ==
    [i \in 1..Len(snapshot) |->
        [_id |-> snapshot[i]._id, x |-> snapshot[i].x, y |-> snapshot[i].y,
         text |-> snapshot[i].text, description |-> snapshot[i].description,
         status |-> snapshot[i].status, timeEstimate |-> snapshot[i].timeEstimate,
         timeUnit |-> snapshot[i].timeUnit, connectors |-> snapshot[i].connectors]]

(* A store node as a ReactFlow node (transformedNodes). *)
TransformNode(node) ==
    [id |-> node._id, type |-> "custom", x |-> node.x, y |-> node.y,
     width |-> node.width, height |-> node.height,
     label |-> node.text,
     description |-> OrDefault(node.description, ""),
     status |-> OrDefault(node.status, "not ready"),
     timeEstimate |-> node.timeEstimate,
     timeUnit |-> OrDefault(node.timeUnit, "hours"),
     connectors |-> node.connectors]

AnchorNode(id, x, y) ==
    [id |-> id, type |-> "default", x |-> x * CoordUnit, y |-> y * CoordUnit,
     width |-> 1 * CoordUnit, height |-> 1 * CoordUnit,
     label |-> "", description |-> Undefined, status |-> Undefined,
     timeEstimate |-> None, timeUnit |-> Undefined, connectors |-> <<>>]

anchorNodes ==
    << AnchorNode("anchor-top-left", CANVAS_MIN_X, CANVAS_MIN_Y),
       AnchorNode("anchor-top-right", CANVAS_MAX_X, CANVAS_MIN_Y),
       AnchorNode("anchor-bottom-left", CANVAS_MIN_X, CANVAS_MAX_Y),
       AnchorNode("anchor-bottom-right", CANVAS_MAX_X, CANVAS_MAX_Y) >>

(* Mutant of SyncedNodes: nodes the snapshot does not hold (temporary      *)
(* nodes) are kept, and a node keeps its optimistic status.                *)
SyncedNodes_Merge(snapshot, local) ==
    [i \in 1..Len(snapshot) |->
        LET k == IF \E j \in 1..Len(local) : local[j].id = snapshot[i]._id
                 THEN CHOOSE j \in 1..Len(local) : local[j].id = snapshot[i]._id
                 ELSE 0
        IN  IF k = 0 THEN TransformNode(snapshot[i])
            ELSE [TransformNode(snapshot[i]) EXCEPT !.status = local[k].status]]
    \o SelectSeq(local, LAMBDA n : n.type = "custom"
                                   /\ \A i \in 1..Len(snapshot) : snapshot[i]._id /= n.id)
    \o anchorNodes

(* setNodes([...transformedNodes, ...anchorNodes]) *)
SyncedNodes(snapshot, local) ==
    [i \in 1..Len(snapshot) |-> TransformNode(snapshot[i])] \o anchorNodes

(* reactFlowEdges: the delivered edges as ReactFlow edges *)
TransformEdge(edge) ==
    [id |-> edge._id, source |-> edge.source, target |-> edge.target,
     sourceHandle |-> edge.sourceHandle, targetHandle |-> edge.targetHandle]

reactFlowEdges(cEdges, cNodes) ==
    IF cEdges = None \/ cNodes = None THEN <<>>
    ELSE [i \in 1..Len(cEdges[1]) |-> TransformEdge(cEdges[1][i])]

(* Mutant of IsConflict: the position tolerance is inclusive (>= 1).       *)
IsConflict_Inclusive(pendingOp, convexNode) ==
    \/ /\ pendingOp.type = "position"
       /\ \/ Abs(convexNode.x - pendingOp.data[1]) >= PositionTolerance
          \/ Abs(convexNode.y - pendingOp.data[2]) >= PositionTolerance
    \/ (pendingOp.type = "text" /\ convexNode.text /= pendingOp.data)
    \/ (pendingOp.type = "description" /\ convexNode.description /= pendingOp.data)
    \/ (pendingOp.type = "status" /\ convexNode.status /= pendingOp.data)
    \/ (pendingOp.type = "timeEstimate" /\ convexNode.timeEstimate /= pendingOp.data)
    \/ (pendingOp.type = "timeUnit" /\ convexNode.timeUnit /= pendingOp.data)

(* isConflict of the sync effect: does the snapshot's node differ from     *)
(* what the pending operation expected?                                    *)
IsConflict(pendingOp, convexNode) ==
    \/ /\ pendingOp.type = "position"
       /\ \/ Abs(convexNode.x - pendingOp.data[1]) > PositionTolerance
          \/ Abs(convexNode.y - pendingOp.data[2]) > PositionTolerance
    \/ (pendingOp.type = "text" /\ convexNode.text /= pendingOp.data)
    \/ (pendingOp.type = "description" /\ convexNode.description /= pendingOp.data)
    \/ (pendingOp.type = "status" /\ convexNode.status /= pendingOp.data)
    \/ (pendingOp.type = "timeEstimate" /\ convexNode.timeEstimate /= pendingOp.data)
    \/ (pendingOp.type = "timeUnit" /\ convexNode.timeUnit /= pendingOp.data)

(* pendingOperationsRef.current.set(id, op) *)
PendingSet(pending, id, op) ==
    [k \in DOMAIN pending \cup {id} |-> IF k = id THEN op ELSE pending[k]]

(* pendingOperationsRef.current.delete(id), for a set of ids *)
PendingDelete(pending, ids) ==
    [k \in DOMAIN pending \ ids |-> pending[k]]

(* Mutant of PendingAfterSync: a conflicting record is kept for the next   *)
(* snapshot.                                                               *)
PendingAfterSync_KeepConflicts(pending, snapshot) ==
    PendingDelete(pending,
        {snapshot[i]._id : i \in {j \in 1..Len(snapshot) :
            snapshot[j]._id \in DOMAIN pending
            /\ ~IsConflict(pending[snapshot[j]._id], snapshot[j])}})

(* The pending map after the forEach of the sync effect: the record of     *)
(* every node of the snapshot is deleted.                                  *)
PendingAfterSync(pending, snapshot) ==
    PendingDelete(pending, {snapshot[i]._id : i \in 1..Len(snapshot)})

(* Mutant of IsLastSynced: no snapshot is taken for the last synced one.   *)
IsLastSynced_Never(ref, snapshot) == FALSE

(* lastSyncedConvexDataRef.current !== null &&                             *)
(* lastSyncedConvexDataRef.current === convexDataHash                      *)
IsLastSynced(ref, snapshot) == ref /= None /\ ref[1] = ConvexDataHash(snapshot)

(* The sync effect (useEffect on convexNodes), run on the snapshot just    *)
(* delivered.                                                              *)
SyncEffect(snapshot) ==
    IF IsLastSynced(lastSyncedConvexDataRef, snapshot)
    THEN /\ conflictWarnings' = {}
         /\ UNCHANGED <<lastSyncedConvexDataRef, pendingOperationsRef, conflictDetected,
                        lastLocal, nodes>>
    ELSE LET warned == {snapshot[i]._id : i \in {j \in 1..Len(snapshot) :
                            snapshot[j]._id \in DOMAIN pendingOperationsRef
                            /\ IsConflict(pendingOperationsRef[snapshot[j]._id], snapshot[j])}}
         IN  /\ lastSyncedConvexDataRef' = Some(ConvexDataHash(snapshot))
             /\ conflictWarnings' = warned
             /\ pendingOperationsRef' = PendingAfterSync(pendingOperationsRef, snapshot)
             /\ conflictDetected' = (conflictDetected \/ warned /= {})
             /\ nodes' = SyncedNodes(snapshot, nodes)
             /\ lastLocal' = <<>>

(* The recalculation effect (useEffect on convexNodes and openClockPopups) *)
(* on a new nodes snapshot: nothing is done on an empty snapshot;          *)
(* otherwise the value of every open popup is calculated again from the    *)
(* snapshot and the edges delivered last.  The popup of a node that is not *)
(* in the snapshot goes with its node.                                     *)
RecalculatedPopups(popups, snapshot, delivered) ==
    IF DOMAIN popups = {} THEN popups
    ELSE [n \in {m \in DOMAIN popups : FindNode(snapshot, m) /= 0} |->
            IF delivered = None THEN 0
            ELSE calculateTimeUntilReady(snapshot, delivered[1], n)]

(* getAll of the nodes table delivers its current result; the render that  *)
(* follows runs the sync effect, the recalculation effect and,             *)
(* reactFlowEdges depending on convexNodes, the edge sync effect.          *)
DeliverNodes ==
    /\ nodesDirty
    /\ nodesDirty' = FALSE
    /\ convexNodes' = Some(dbNodes)
    /\ SyncEffect(dbNodes)
    /\ edges' = IF convexEdges /= None
                THEN reactFlowEdges(convexEdges, convexNodes') ELSE edges
    /\ clockPopup' = RecalculatedPopups(clockPopup, dbNodes, convexEdges)
    /\ toastError' = None
    /\ UNCHANGED <<dbNodes, dbEdges, edgesDirty, nextId, convexEdges, callVars, uiVars,
                   sessionVars, presenceVars, retryVars>>

(* getAll of the edges table delivers its current result; the edge sync    *)
(* effect replaces the local edges.                                        *)
DeliverEdges ==
    /\ edgesDirty
    /\ edgesDirty' = FALSE
    /\ convexEdges' = Some(dbEdges)
    /\ edges' = reactFlowEdges(convexEdges', convexNodes)
    /\ Silent
    /\ UNCHANGED <<dbNodes, dbEdges, nodesDirty, nextId, convexNodes, nodes, trackVars,
                   callVars, clockPopup, uiVars,
                   sessionVars, presenceVars, retryVars>>

(* Mutant of ConflictTimeout: the timer never clears the signal. *)
ConflictTimeout_Never ==
    /\ FALSE
    /\ UNCHANGED vars

(* The 3000 ms timer started when the banner was raised. *)
ConflictTimeout ==
    /\ conflictDetected
    /\ conflictDetected' = FALSE
    /\ Silent
    /\ UNCHANGED <<storeVars, queryVars, localVars, pendingOperationsRef,
                   lastSyncedConvexDataRef, lastLocal, callVars, clockPopup, uiVars,
                   sessionVars, presenceVars, retryVars>>


----------------------------------------------------------------------------
(* The node handlers of Canvas.tsx and the results of their store calls.   *)

MaxInFlight == 2

MaxNow == 2

(* the connector handlers run while fewer calls than this are in flight *)
MaxConnectorCalls == 1

(* `input-${Date.now()}`, `output-${Date.now()}`, `temp-edge-${Date.now()}` *)
(* and `temp-node-${Date.now()}` at tick t; the clock is taken to advance  *)
(* between two uses.                                                       *)
Ticks == 1..8
InputIdAt(t) ==
    <<"input-t1", "input-t2", "input-t3", "input-t4", "input-t5", "input-t6", "input-t7",
      "input-t8">>[t]
OutputIdAt(t) ==
    <<"output-t1", "output-t2", "output-t3", "output-t4", "output-t5", "output-t6",
      "output-t7", "output-t8">>[t]
TempEdgeIdAt(t) ==
    <<"temp-edge-1", "temp-edge-2", "temp-edge-3", "temp-edge-4", "temp-edge-5",
      "temp-edge-6", "temp-edge-7", "temp-edge-8">>[t]
TempNodeIdAt(t) ==
    <<"temp-node-1", "temp-node-2", "temp-node-3", "temp-node-4", "temp-node-5",
      "temp-node-6", "temp-node-7", "temp-node-8">>[t]

IsTempId(id) == \E t \in Ticks : id = TempNodeIdAt(t)

(* the local nodes that carry the store-backed handlers *)
EditableIds ==
    {nodes[i].id : i \in {j \in 1..Len(nodes) :
        nodes[j].type = "custom" /\ ~IsTempId(nodes[j].id)}}

LocalIndex(id) == CHOOSE i \in 1..Len(nodes) : nodes[i].id = id
LocalNode(id) == nodes[LocalIndex(id)]

(* nds.map(n => n.id === id ? {...n, [field]: value} : n) *)
NodesWith(nds, id, field, value) ==
    [i \in 1..Len(nds) |->
        IF nds[i].id = id THEN [nds[i] EXCEPT ![field] = value] ELSE nds[i]]

NodesAt(nds, id, x, y) ==
    [i \in 1..Len(nds) |->
        IF nds[i].id = id THEN [nds[i] EXCEPT !.x = x, !.y = y] ELSE nds[i]]

Call(op, id, arg, orig) == [op |-> op, id |-> id, arg |-> arg, orig |-> orig]

HistorySet(h, id, field, value) ==
    [k \in DOMAIN h \cup {id} |-> IF k = id THEN <<field, value>> ELSE h[k]]

(* The history after the oldest call was rejected: when no later call of   *)
(* the same operation on the same node is in flight, the rejected call was *)
(* the node's latest local mutation and its entry ends.                    *)
HistoryAfterReject(h) ==
    IF \E i \in 2..Len(inflight) :
          inflight[i].id = Head(inflight).id /\ inflight[i].op = Head(inflight).op
    THEN h
    ELSE [k \in DOMAIN h \ {Head(inflight).id} |-> h[k]]

(* handleStatusClick: the status after `status` in the cycle *)
NextStatus(status) ==
    CASE status = "not ready"   -> "can start"
      [] status = "can start"   -> "in progress"
      [] status = "in progress" -> "complete"
      [] status = "complete"    -> "not ready"
      [] OTHER                  -> "not ready"

(* handleTimeUnitToggle: the unit after `unit` in the cycle *)
NextTimeUnit(unit) ==
    CASE unit = "minutes" -> "hours"
      [] unit = "hours"   -> "days"
      [] unit = "days"    -> "weeks"
      [] unit = "weeks"   -> "minutes"
      [] OTHER            -> "minutes"

(* Mutant of PendingBegin: a record of another type is kept, the new one   *)
(* dropped.                                                                *)
PendingBegin_KeepOtherType(pending, id, type, data) ==
    IF id \in DOMAIN pending /\ pending[id].type /= type
    THEN pending
    ELSE PendingSet(pending, id, [type |-> type, data |-> data])

(* pendingOperationsRef.current.set(nodeId, {type, data, timestamp}) *)
PendingBegin(pending, id, type, data) ==
    PendingSet(pending, id, [type |-> type, data |-> data])

(* The four handlers that record a pending operation and call the store    *)
(* without touching the local node: text, description, timeEstimate,       *)
(* timeUnit.                                                               *)
FieldChange(id, type, op, value) ==
    /\ Len(inflight) < MaxInFlight
    /\ id \in EditableIds
    /\ pendingOperationsRef' = PendingBegin(pendingOperationsRef, id, type, value)
    /\ inflight' = Append(inflight, Call(op, id, value, None))
    /\ Silent
    /\ UNCHANGED <<storeVars, queryVars, localVars, lastSyncedConvexDataRef,
                   conflictDetected, lastLocal, clockPopup, uiVars,
                   sessionVars, presenceVars, retryVars>>

(* createLabelChangeHandler, called by handleTitleSave when the text differs *)
LabelChange(id, newLabel) ==
    /\ id \in EditableIds /\ newLabel /= LocalNode(id).label
    /\ FieldChange(id, "text", "updateText", newLabel)

(* createDescriptionChangeHandler, called by handleDescriptionSave *)
DescriptionChange(id, newDescription) ==
    /\ id \in EditableIds /\ newDescription /= LocalNode(id).description
    /\ FieldChange(id, "description", "updateDescription", newDescription)

(* createTimeEstimateChangeHandler, called on every valid input change *)
TimeEstimateChange(id, newTimeEstimate) ==
    FieldChange(id, "timeEstimate", "updateTimeEstimate", newTimeEstimate)

(* createTimeUnitChangeHandler, called by handleTimeUnitToggle *)
TimeUnitChange(id) ==
    /\ id \in EditableIds
    /\ FieldChange(id, "timeUnit", "updateTimeUnit", NextTimeUnit(LocalNode(id).timeUnit))

(* createStatusChangeHandler, called by handleStatusClick *)
StatusChange(id) ==
    /\ Len(inflight) < MaxInFlight
    /\ id \in EditableIds
    /\ LET originalStatus == OrDefault(LocalNode(id).status, "not ready")
           newStatus == NextStatus(LocalNode(id).status)
       IN  /\ nodes' = NodesWith(nodes, id, "status", newStatus)
           /\ pendingOperationsRef' = PendingBegin(pendingOperationsRef, id, "status", newStatus)
           /\ inflight' = Append(inflight, Call("updateStatus", id, newStatus, originalStatus))
           /\ lastLocal' = HistorySet(lastLocal, id, "status", newStatus)
    /\ Silent
    /\ UNCHANGED <<storeVars, queryVars, edges, lastSyncedConvexDataRef, conflictDetected,
                   clockPopup, uiVars,
                   sessionVars, presenceVars, retryVars>>

(* A drag of node id to (x, y) by ReactFlow, ended by onNodeDragStop.      *)
(* originalPosition is copied from the node handed to the handler, which   *)
(* already carries the position the drag ended at.                         *)
NodeDragStop(id, x, y) ==
    /\ Len(inflight) < MaxInFlight
    /\ id \in EditableIds
    /\ nodes' = NodesAt(nodes, id, x, y)
    /\ pendingOperationsRef' = PendingBegin(pendingOperationsRef, id, "position", <<x, y>>)
    /\ inflight' = Append(inflight, Call("updatePosition", id, <<x, y>>, <<x, y>>))
    /\ lastLocal' = HistorySet(lastLocal, id, "position", <<x, y>>)
    /\ Silent
    /\ UNCHANGED <<storeVars, queryVars, edges, lastSyncedConvexDataRef, conflictDetected,
                   clockPopup, uiVars,
                   sessionVars, presenceVars, retryVars>>

FieldOps == {"updateText", "updateDescription", "updateTimeEstimate", "updateTimeUnit"}

FieldOf(op) ==
    CASE op = "updateText" -> "text"
      [] op = "updateDescription" -> "description"
      [] op = "updateTimeEstimate" -> "timeEstimate"
      [] op = "updateTimeUnit" -> "timeUnit"
      [] op = "updateStatus" -> "status"
      [] op = "updatePosition" -> "position"

FailureToast(op) ==
    CASE op = "updateText" -> "Failed to update node text"
      [] op = "updateDescription" -> "Failed to update node description"
      [] op = "updateTimeEstimate" -> "Failed to update time estimate"
      [] op = "updateTimeUnit" -> "Failed to update time unit"
      [] op = "updateStatus" -> "Failed to update node status"
      [] op = "updatePosition" -> "Failed to save node position"

(* The oldest call is one of updateText, updateDescription,                *)
(* updateTimeEstimate, updateTimeUnit and the store applies it.            *)
FieldUpdateResolved ==
    /\ inflight /= <<>> /\ Head(inflight).op \in FieldOps
    /\ DbHas(Head(inflight).id)
    /\ dbNodes' = DbPatch(Head(inflight).id, FieldOf(Head(inflight).op), Head(inflight).arg)
    /\ nodesDirty' = TRUE
    /\ inflight' = Tail(inflight)
    /\ Silent
    /\ UNCHANGED <<dbEdges, edgesDirty, nextId, queryVars, localVars, trackVars, clockPopup, uiVars,
                   sessionVars, presenceVars, retryVars>>

(* ... and the call is rejected: the catch block of the handler. *)
FieldUpdateRejected ==
    /\ inflight /= <<>> /\ Head(inflight).op \in FieldOps
    /\ pendingOperationsRef' = PendingDelete(pendingOperationsRef, {Head(inflight).id})
    /\ toastError' = Some(FailureToast(Head(inflight).op))
    /\ conflictWarnings' = {}
    /\ inflight' = Tail(inflight)
    /\ UNCHANGED <<storeVars, queryVars, localVars, lastSyncedConvexDataRef,
                   conflictDetected, lastLocal, clockPopup, uiVars,
                   sessionVars, presenceVars, retryVars>>

StatusUpdateResolved ==
    /\ inflight /= <<>> /\ Head(inflight).op = "updateStatus"
    /\ DbHas(Head(inflight).id)
    /\ dbNodes' = DbPatch(Head(inflight).id, "status", Head(inflight).arg)
    /\ nodesDirty' = TRUE
    /\ inflight' = Tail(inflight)
    /\ Silent
    /\ UNCHANGED <<dbEdges, edgesDirty, nextId, queryVars, localVars, trackVars, clockPopup, uiVars,
                   sessionVars, presenceVars, retryVars>>

(* catch of createStatusChangeHandler: the pending record of the node is   *)
(* deleted and the status captured before the update is written back.      *)
StatusUpdateRejected ==
    /\ inflight /= <<>> /\ Head(inflight).op = "updateStatus"
    /\ pendingOperationsRef' = PendingDelete(pendingOperationsRef, {Head(inflight).id})
    /\ nodes' = NodesWith(nodes, Head(inflight).id, "status", Head(inflight).orig)
    /\ toastError' = Some(FailureToast("updateStatus"))
    /\ conflictWarnings' = {}
    /\ inflight' = Tail(inflight)
    /\ lastLocal' = HistoryAfterReject(lastLocal)
    /\ UNCHANGED <<storeVars, queryVars, edges, lastSyncedConvexDataRef, conflictDetected,
                   clockPopup, uiVars,
                   sessionVars, presenceVars, retryVars>>

PositionUpdateResolved ==
    /\ inflight /= <<>> /\ Head(inflight).op = "updatePosition"
    /\ DbHas(Head(inflight).id)
    /\ dbNodes' = DbPatchPosition(Head(inflight).id, Head(inflight).arg[1], Head(inflight).arg[2])
    /\ nodesDirty' = TRUE
    /\ inflight' = Tail(inflight)
    /\ Silent
    /\ UNCHANGED <<dbEdges, edgesDirty, nextId, queryVars, localVars, trackVars, clockPopup, uiVars,
                   sessionVars, presenceVars, retryVars>>

(* catch of onNodeDragStop *)
PositionUpdateRejected ==
    /\ inflight /= <<>> /\ Head(inflight).op = "updatePosition"
    /\ pendingOperationsRef' = PendingDelete(pendingOperationsRef, {Head(inflight).id})
    /\ nodes' = NodesAt(nodes, Head(inflight).id, Head(inflight).orig[1], Head(inflight).orig[2])
    /\ toastError' = Some(FailureToast("updatePosition"))
    /\ conflictWarnings' = {}
    /\ inflight' = Tail(inflight)
    /\ lastLocal' = HistoryAfterReject(lastLocal)
    /\ UNCHANGED <<storeVars, queryVars, edges, lastSyncedConvexDataRef, conflictDetected,
                   clockPopup, uiVars,
                   sessionVars, presenceVars, retryVars>>

(* Another client's updateText, updateStatus or updatePosition is applied  *)
(* by the store.                                                           *)
OtherClientUpdate(id, field, value) ==
    /\ DbHas(id)
    /\ dbNodes' = IF field = "position" THEN DbPatchPosition(id, value[1], value[2])
                  ELSE DbPatch(id, field, value)
    /\ nodesDirty' = TRUE
    /\ Silent
    /\ UNCHANGED <<dbEdges, edgesDirty, nextId, queryVars, localVars, trackVars, callVars,
                   clockPopup, uiVars,
                   sessionVars, presenceVars, retryVars>>

----------------------------------------------------------------------------
(* Connectors: addConnectorAndRedistribute, removeConnectorAndRedistribute *)
(* and the smart connect of onConnectEnd.                                  *)

EdgeIdSeq == <<"e1", "e2", "e3", "e4", "e5", "e6">>

RECURSIVE Gcd(_, _)
Gcd(a, b) == IF b = 0 THEN a ELSE Gcd(b, a % b)

(* the number (num / den) * 100, as the fraction num/den in lowest terms *)
Percent(num, den) == <<num \div Gcd(num, den), den \div Gcd(num, den)>>

Connector(id, type, side, position) ==
    [id |-> id, type |-> type, side |-> side, position |-> position]

(* connectors.filter(c => c.type === type && c.side === side) *)
SameTypeAndSide(connectors, type, side) ==
    SelectSeq(connectors, LAMBDA c : c.type = type /\ c.side = side)

(* Mutant of Redistributed: the positions start at 0, index / (length+1).  *)
Redistributed_FromZero(sameTypeAndSide) ==
    [i \in 1..Len(sameTypeAndSide) |->
        [sameTypeAndSide[i] EXCEPT !.position = Percent(i - 1, Len(sameTypeAndSide) + 1)]]

(* sameTypeAndSide.map((c, index) =>                                       *)
(*    ({...c, position: ((index + 1) / (length + 1)) * 100}))              *)
Redistributed(sameTypeAndSide) ==
    [i \in 1..Len(sameTypeAndSide) |->
        [sameTypeAndSide[i] EXCEPT !.position = Percent(i, Len(sameTypeAndSide) + 1)]]

(* all.map(c => redistributed.find(r => r.id === c.id) || c) *)
MergeById(all, redistributed) ==
    [i \in 1..Len(all) |->
        IF \E j \in 1..Len(redistributed) : redistributed[j].id = all[i].id
        THEN redistributed[CHOOSE j \in 1..Len(redistributed) :
                /\ redistributed[j].id = all[i].id
                /\ \A k \in 1..(j - 1) : redistributed[k].id /= all[i].id]
        ELSE all[i]]

(* finalConnectors of addConnectorAndRedistribute *)
ConnectorsAfterAdd(currentConnectors, newConnector) ==
    LET allConnectors == Append(currentConnectors, newConnector)
    IN  MergeById(allConnectors,
            Redistributed(SameTypeAndSide(allConnectors, newConnector.type,
                                          newConnector.side)))

HasConnector(connectors, connectorId) ==
    \E i \in 1..Len(connectors) : connectors[i].id = connectorId

(* currentConnectors.find(c => c.id === connectorId) *)
FindConnector(connectors, connectorId) ==
    connectors[CHOOSE i \in 1..Len(connectors) :
        /\ connectors[i].id = connectorId
        /\ \A k \in 1..(i - 1) : connectors[k].id /= connectorId]

(* finalConnectors of removeConnectorAndRedistribute *)
ConnectorsAfterRemove(currentConnectors, connectorId) ==
    LET connectorToRemove == FindConnector(currentConnectors, connectorId)
        remainingConnectors == SelectSeq(currentConnectors, LAMBDA c : c.id /= connectorId)
    IN  MergeById(remainingConnectors,
            Redistributed(SameTypeAndSide(remainingConnectors, connectorToRemove.type,
                                          connectorToRemove.side)))

(* the edge (source, sourceHandle) -> (target, targetHandle) *)
EdgeParams(source, sourceHandle, target, targetHandle) ==
    [source |-> source, target |-> target,
     sourceHandle |-> sourceHandle, targetHandle |-> targetHandle]

(* ReactFlow's addEdge: the edge is appended unless an edge with the same  *)
(* source, target and handles is there                                     *)
AddEdge(edge, eds) ==
    IF \E i \in 1..Len(eds) :
          /\ eds[i].source = edge.source /\ eds[i].target = edge.target
          /\ eds[i].sourceHandle = edge.sourceHandle
          /\ eds[i].targetHandle = edge.targetHandle
    THEN eds
    ELSE Append(eds, edge)

(* the tail of onConnectEnd: the temporary edge is added and createEdge    *)
(* is called                                                               *)
BeginCreateEdge(params, calls) ==
    /\ edges' = AddEdge([id |-> TempEdgeIdAt(now + 1), source |-> params.source,
                         target |-> params.target, sourceHandle |-> params.sourceHandle,
                         targetHandle |-> params.targetHandle], edges)
    /\ inflight' = Append(calls, Call("createEdge", TempEdgeIdAt(now + 1), params, "temp"))
    /\ now' = now + 1

(* the first connector of the given type on the local node that no local   *)
(* edge uses as the handle of that end: <<>> or <<connector id>>           *)
UnusedConnector(nodeId, type) ==
    LET cs == SelectSeq(LocalNode(nodeId).connectors, LAMBDA c : c.type = type)
        used == IF type = "input"
                THEN {edges[i].targetHandle : i \in {j \in 1..Len(edges) :
                          edges[j].target = nodeId /\ edges[j].targetHandle /= Undefined}}
                ELSE {edges[i].sourceHandle : i \in {j \in 1..Len(edges) :
                          edges[j].source = nodeId /\ edges[j].sourceHandle /= Undefined}}
        free == SelectSeq(cs, LAMBDA c : c.id \notin used)
    IN  IF free = <<>> THEN None ELSE Some(free[1].id)

(* onConnectEnd with the connection started (onConnectStart) at handle     *)
(* handleId of node startId and released on the body of node releasedId.   *)
(* A connection from a source handle takes an unused input of the          *)
(* released node as its target handle, or adds a new input on its left     *)
(* side; a connection from a target handle does the same with the outputs  *)
(* of the released node, on its right side.                                *)
ConnectEnd(startId, handleId, handleType, releasedId) ==
    /\ Len(inflight) < MaxConnectorCalls
    /\ now < MaxNow
    /\ startId \in EditableIds /\ releasedId \in EditableIds
    /\ releasedId /= startId
    /\ HasConnector(LocalNode(startId).connectors, handleId)
    /\ FindConnector(LocalNode(startId).connectors, handleId).type =
          (IF handleType = "source" THEN "output" ELSE "input")
    /\ LET type == IF handleType = "source" THEN "input" ELSE "output"
           unused == UnusedConnector(releasedId, type)
           newConnector ==
               IF handleType = "source"
               THEN Connector(InputIdAt(now + 1), "input", "left", Percent(1, 2))
               ELSE Connector(OutputIdAt(now + 1), "output", "right", Percent(1, 2))
           params(h) ==
               IF handleType = "source"
               THEN EdgeParams(startId, handleId, releasedId, h)
               ELSE EdgeParams(releasedId, h, startId, handleId)
           finalConnectors ==
               ConnectorsAfterAdd(LocalNode(releasedId).connectors, newConnector)
       IN  IF unused /= None
           THEN /\ BeginCreateEdge(params(unused[1]), inflight)
                /\ UNCHANGED nodes
           ELSE /\ nodes' = NodesWith(nodes, releasedId, "connectors", finalConnectors)
                /\ inflight' = Append(inflight,
                       Call("updateConnectors", releasedId, finalConnectors,
                            [kind |-> "add", connector |-> newConnector,
                             edge |-> params(newConnector.id)]))
                /\ now' = now + 1
                /\ UNCHANGED edges
    /\ Silent
    /\ UNCHANGED <<storeVars, queryVars, trackVars, clockPopup, dragState,
                   connectorPlacement,
                   sessionVars, presenceVars, retryVars>>

(* removeConnectorAndRedistribute (onConnectorDelete, and the delete key   *)
(* over a hovered handle)                                                  *)
ConnectorDelete(nodeId, connectorId) ==
    /\ Len(inflight) < MaxConnectorCalls
    /\ \E i \in 1..Len(nodes) : nodes[i].id = nodeId /\ nodes[i].type = "custom"
    /\ HasConnector(LocalNode(nodeId).connectors, connectorId)
    /\ LET originalConnectors == LocalNode(nodeId).connectors
           finalConnectors == ConnectorsAfterRemove(originalConnectors, connectorId)
       IN  /\ nodes' = NodesWith(nodes, nodeId, "connectors", finalConnectors)
           /\ inflight' = Append(inflight,
                  Call("updateConnectors", nodeId, finalConnectors,
                       [kind |-> "remove",
                        connector |-> FindConnector(originalConnectors, connectorId),
                        original |-> originalConnectors]))
    /\ Silent
    /\ UNCHANGED <<storeVars, queryVars, edges, trackVars, clockPopup, uiVars,
                   sessionVars, presenceVars, retryVars>>

(* edges the connector of the node is a handle of *)
UsesConnector(e, nodeId, connectorId) ==
    \/ (e.source = nodeId /\ e.sourceHandle = connectorId)
    \/ (e.target = nodeId /\ e.targetHandle = connectorId)

(* no removeEdge is called *)
RemoveEdgeCalls_None(eds) == <<>>

RECURSIVE RemoveEdgeCalls(_)
RemoveEdgeCalls(eds) ==
    IF eds = <<>> THEN <<>>
    ELSE <<Call("removeEdge", Head(eds).id, None, [by |-> "removeConnector"])>>
         \o RemoveEdgeCalls(Tail(eds))

(* updateConnectors of convex/nodes.ts succeeds.  After an add, onConnectEnd *)
(* goes on to create the edge; after a remove, the local edges that use    *)
(* the connector are removed and removeEdge is called for each, its result *)
(* only logged.                                                            *)
ConnectorsUpdateResolved ==
    /\ inflight /= <<>> /\ Head(inflight).op = "updateConnectors"
    /\ DbHas(Head(inflight).id)
    /\ dbNodes' = DbPatch(Head(inflight).id, "connectors", Head(inflight).arg)
    /\ nodesDirty' = TRUE
    /\ IF Head(inflight).orig.kind = "add"
       THEN BeginCreateEdge(Head(inflight).orig.edge, Tail(inflight))
       ELSE LET uses(e) == UsesConnector(e, Head(inflight).id,
                                         Head(inflight).orig.connector.id)
            IN  /\ edges' = SelectSeq(edges, LAMBDA e : ~uses(e))
                /\ inflight' = Tail(inflight) \o RemoveEdgeCalls(SelectSeq(edges, uses))
                /\ now' = now
    /\ Silent
    /\ UNCHANGED <<dbEdges, edgesDirty, nextId, queryVars, nodes, trackVars, clockPopup,
                   dragState, connectorPlacement,
                   sessionVars, presenceVars, retryVars>>

(* updateConnectors fails.  addConnectorAndRedistribute logs and returns   *)
(* null, and onConnectEnd gives up; removeConnectorAndRedistribute         *)
(* restores originalConnectors and raises a toast.                         *)
ConnectorsUpdateRejected ==
    /\ inflight /= <<>> /\ Head(inflight).op = "updateConnectors"
    /\ inflight' = Tail(inflight)
    /\ IF Head(inflight).orig.kind = "add"
       THEN /\ UNCHANGED nodes
            /\ toastError' = None
       ELSE /\ nodes' = NodesWith(nodes, Head(inflight).id, "connectors",
                                  Head(inflight).orig.original)
            /\ toastError' = Some("Failed to remove connector. Please try again.")
    /\ conflictWarnings' = {}
    /\ UNCHANGED <<storeVars, queryVars, edges, trackVars, clockPopup, uiVars,
                   sessionVars, presenceVars, retryVars>>

(* create of convex/edges.ts: the edge is inserted when both of its end    *)
(* nodes exist.  onConnectEnd then drops the temporary edge.               *)
CreateEdgeResolved ==
    /\ inflight /= <<>> /\ Head(inflight).op = "createEdge"
    /\ Head(inflight).orig = "temp"
    /\ nextId < Len(EdgeIdSeq)
    /\ DbHas(Head(inflight).arg.source) /\ DbHas(Head(inflight).arg.target)
    /\ dbEdges' = Append(dbEdges,
          [_id |-> EdgeIdSeq[nextId + 1], source |-> Head(inflight).arg.source,
           target |-> Head(inflight).arg.target,
           sourceHandle |-> Head(inflight).arg.sourceHandle,
           targetHandle |-> Head(inflight).arg.targetHandle])
    /\ nextId' = nextId + 1
    /\ edgesDirty' = TRUE
    /\ edges' = SelectSeq(edges, LAMBDA e : e.id /= Head(inflight).id)
    /\ inflight' = Tail(inflight)
    /\ Silent
    /\ UNCHANGED <<dbNodes, nodesDirty, queryVars, nodes, trackVars, clockPopup, uiVars,
                   sessionVars, presenceVars, retryVars>>

(* createEdge fails: the temporary edge is removed and a toast raised *)
CreateEdgeRejected ==
    /\ inflight /= <<>> /\ Head(inflight).op = "createEdge"
    /\ Head(inflight).orig = "temp"
    /\ edges' = SelectSeq(edges, LAMBDA e : e.id /= Head(inflight).id)
    /\ inflight' = Tail(inflight)
    /\ toastError' = Some("Failed to create connection")
    /\ conflictWarnings' = {}
    /\ UNCHANGED <<storeVars, queryVars, nodes, trackVars, clockPopup, uiVars,
                   sessionVars, presenceVars, retryVars>>

(* remove of convex/edges.ts, called without await: the edge is deleted,   *)
(* or the call fails; the client only logs a failure.                      *)
RemoveEdgeSettled ==
    /\ inflight /= <<>> /\ Head(inflight).op = "removeEdge"
    /\ Head(inflight).orig.by = "removeConnector"
    /\ dbEdges' = SelectSeq(dbEdges, LAMBDA e : e._id /= Head(inflight).id)
    /\ edgesDirty' = (edgesDirty \/ dbEdges' /= dbEdges)
    /\ inflight' = Tail(inflight)
    /\ Silent
    /\ UNCHANGED <<dbNodes, nodesDirty, nextId, queryVars, localVars, trackVars, clockPopup,
                   uiVars,
                   sessionVars, presenceVars, retryVars>>

----------------------------------------------------------------------------
(* The two-phase creation gesture: handleMouseDown, handleMouseMove and    *)
(* handleMouseUp with the node tool, and createNode.                       *)

(* the gesture is finished at most this many times *)
MaxTempNodes == 1

MIN_NODE_SIZE == 50
MIN_CONNECTORS == 1
MAX_CONNECTORS == 8
CONNECTOR_DISTANCE_FACTOR == 20

(* Mutant of ConnectorCount: the distance is not looked at. *)
ConnectorCount_Min(placement) == MIN_CONNECTORS

(* connectorCount of handleMouseUp:                                        *)
(* max(MIN_CONNECTORS, min(MAX_CONNECTORS, floor(distance / FACTOR))),     *)
(* the floor of the distance over the factor being the largest k with      *)
(* (FACTOR * k)^2 <= distance^2                                            *)
ConnectorCount(placement) ==
    LET dx == placement.currentX - placement.releaseX
        dy == placement.currentY - placement.releaseY
        squared == dx * dx + dy * dy
        step(k) == (CONNECTOR_DISTANCE_FACTOR * k) * (CONNECTOR_DISTANCE_FACTOR * k)
    IN  Max2(MIN_CONNECTORS,
             CHOOSE k \in 0..MAX_CONNECTORS :
                 /\ step(k) <= squared
                 /\ (k = MAX_CONNECTORS \/ squared < step(k + 1)))

(* the connectors of a created node: connectorCount inputs on the left,    *)
(* one output at the middle of the right side                              *)
NewNodeConnectors(connectorCount) ==
    [i \in 1..connectorCount |->
        Connector(<<"input-0", "input-1", "input-2", "input-3", "input-4", "input-5",
                    "input-6", "input-7">>[i],
                  "input", "left", Percent(i, connectorCount + 1))]
    \o <<Connector("output-0", "output", "right", Percent(1, 2))>>

(* A viewport is <<x, y, zoom>>, zoom the fraction <<num, den>>.           *)
(* screenToFlowPosition: (screen - viewport) / zoom, in 1/CoordUnit units  *)
ScreenToFlow(screen, offset, zoom) == ((screen - offset) * zoom[2] * CoordUnit) \div zoom[1]

(* connectorPlacement.nodeWidth / zoom, in 1/CoordUnit units *)
FlowLength(pixels, zoom) == (pixels * zoom[2] * CoordUnit) \div zoom[1]

(* Math.max(MIN, Math.min(MAX - length, flow + length / 2)) *)
ClampedStart(flow, length, min, max) ==
    Max2(min * CoordUnit, Min2(max * CoordUnit - length, flow + length \div 2))

(* handleMouseDown with the node tool, off the handles *)
MouseDown(clientX, clientY) ==
    /\ connectorPlacement = None
    /\ dragState' = Some([startX |-> clientX, startY |-> clientY,
                          currentX |-> clientX, currentY |-> clientY])
    /\ Silent
    /\ UNCHANGED <<storeVars, queryVars, localVars, trackVars, callVars, clockPopup, now,
                   connectorPlacement,
                   sessionVars, presenceVars, retryVars>>

(* handleMouseMove *)
MouseMove(clientX, clientY) ==
    /\ dragState /= None \/ connectorPlacement /= None
    /\ IF dragState /= None
       THEN /\ dragState' = Some([dragState[1] EXCEPT !.currentX = clientX,
                                                      !.currentY = clientY])
            /\ UNCHANGED connectorPlacement
       ELSE /\ connectorPlacement' = Some([connectorPlacement[1] EXCEPT
                                              !.currentX = clientX, !.currentY = clientY])
            /\ UNCHANGED dragState
    /\ Silent
    /\ UNCHANGED <<storeVars, queryVars, localVars, trackVars, callVars, clockPopup, now,
                   sessionVars, presenceVars, retryVars>>

(* handleMouseUp while drawing: a rectangle of at least MIN_NODE_SIZE both *)
(* ways starts the connector placement phase; a smaller one is dropped.    *)
MouseUpSizing(clientX, clientY) ==
    /\ dragState /= None
    /\ LET width == Abs(dragState[1].currentX - dragState[1].startX)
           height == Abs(dragState[1].currentY - dragState[1].startY)
       IN  connectorPlacement' =
              IF width >= MIN_NODE_SIZE /\ height >= MIN_NODE_SIZE
              THEN Some([nodeWidth |-> width, nodeHeight |-> height,
                         nodeX |-> Min2(dragState[1].startX, dragState[1].currentX),
                         nodeY |-> Min2(dragState[1].startY, dragState[1].currentY),
                         releaseX |-> clientX, releaseY |-> clientY,
                         currentX |-> clientX, currentY |-> clientY])
              ELSE connectorPlacement
    /\ dragState' = None
    /\ Silent
    /\ UNCHANGED <<storeVars, queryVars, localVars, trackVars, callVars, clockPopup, now,
                   sessionVars, presenceVars, retryVars>>

(* handleMouseUp in the connector placement phase, under the viewport      *)
(* given: the temporary node is added and createNode is called.            *)
(* connectorPlacement is cleared when the call has returned.  The phase is *)
(* finished at most `limit` times.                                         *)
FinishPlacement(viewport, limit) ==
    /\ dragState = None /\ connectorPlacement /= None
    /\ Len(inflight) < MaxInFlight
    /\ now < limit
    /\ LET placement == connectorPlacement[1]
           zoom == viewport[3]
           nodeWidth == FlowLength(placement.nodeWidth, zoom)
           nodeHeight == FlowLength(placement.nodeHeight, zoom)
           clampedX == ClampedStart(ScreenToFlow(placement.nodeX, viewport[1], zoom),
                                    nodeWidth, CANVAS_MIN_X, CANVAS_MAX_X)
           clampedY == ClampedStart(ScreenToFlow(placement.nodeY, viewport[2], zoom),
                                    nodeHeight, CANVAS_MIN_Y, CANVAS_MAX_Y)
           connectors == NewNodeConnectors(ConnectorCount(placement))
           tempId == TempNodeIdAt(now + 1)
       IN  /\ nodes' = Append(nodes,
                  [id |-> tempId, type |-> "custom", x |-> clampedX, y |-> clampedY,
                   width |-> nodeWidth, height |-> nodeHeight, label |-> "New Node",
                   description |-> "", status |-> "not ready", timeEstimate |-> None,
                   timeUnit |-> "hours", connectors |-> connectors])
           /\ inflight' = Append(inflight,
                  Call("createNode", tempId,
                       [x |-> clampedX, y |-> clampedY, width |-> nodeWidth,
                        height |-> nodeHeight, connectors |-> connectors], None))
    /\ now' = now + 1
    /\ Silent
    /\ UNCHANGED <<storeVars, queryVars, edges, trackVars, clockPopup, dragState,
                   connectorPlacement,
                   sessionVars, presenceVars, retryVars>>

(* the same where the gesture is finished at most MaxTempNodes times *)
MouseUpPlacing(viewport) == FinishPlacement(viewport, MaxTempNodes)

(* Mutant of WithoutNode: the filter keeps every node.                     *)
WithoutNode_KeepAll(nds, id) == nds

(* nds.filter((n) => n.id !== id) *)
WithoutNode(nds, id) == SelectSeq(nds, LAMBDA n : n.id /= id)

(* create of convex/nodes.ts inserts the node; handleMouseUp then removes  *)
(* the temporary node and clears connectorPlacement.                       *)
CreateNodeResolved ==
    /\ inflight /= <<>> /\ Head(inflight).op = "createNode"
    /\ nextId < Len(NodeIdSeq)
    /\ dbNodes' = Append(dbNodes,
          StoredNode(NodeIdSeq[nextId + 1], Head(inflight).arg.x, Head(inflight).arg.y,
                     Head(inflight).arg.width, Head(inflight).arg.height,
                     Head(inflight).arg.connectors))
    /\ nextId' = nextId + 1
    /\ nodesDirty' = TRUE
    /\ nodes' = WithoutNode(nodes, Head(inflight).id)
    /\ connectorPlacement' = None
    /\ inflight' = Tail(inflight)
    /\ Silent
    /\ UNCHANGED <<dbEdges, edgesDirty, queryVars, edges, trackVars, clockPopup, now,
                   dragState,
                   sessionVars, presenceVars, retryVars>>

(* createNode fails: the temporary node is removed and a toast raised *)
CreateNodeRejected ==
    /\ inflight /= <<>> /\ Head(inflight).op = "createNode"
    /\ nodes' = WithoutNode(nodes, Head(inflight).id)
    /\ connectorPlacement' = None
    /\ inflight' = Tail(inflight)
    /\ toastError' = Some("Failed to create node. Please try again.")
    /\ conflictWarnings' = {}
    /\ UNCHANGED <<storeVars, queryVars, edges, trackVars, clockPopup, now, dragState,
                   sessionVars, presenceVars, retryVars>>

----------------------------------------------------------------------------
(* Specification of the calculator alone: the delivered snapshots are any  *)
(* graph over CalcIds, and popups are opened and closed on it.             *)

CalcIds == {"A", "B", "C"}
CalcOrder == <<"A", "B", "C">>
(* <<timeEstimate, timeUnit>> of a node *)
CalcTimes == {<<None, Undefined>>, <<Some(1), "hours">>, <<Some(2), "hours">>,
              <<Some(3), "hours">>, <<Some(90), "minutes">>, <<Some(1), "days">>}
CalcStatuses == {"not ready", "complete"}
CalcPairs == <<<<"A","B">>, <<"B","C">>, <<"A","C">>, <<"B","A">>>>

CalcNode(id, st, te, tu) ==
    [_id |-> id, x |-> 0, y |-> 0, width |-> 100, height |-> 100,
     text |-> "New Node", description |-> Undefined, status |-> st,
     timeEstimate |-> te, timeUnit |-> tu, connectors |-> <<>>]

CalcEdge(i) ==
    [_id |-> i, source |-> CalcPairs[i][1], target |-> CalcPairs[i][2],
     sourceHandle |-> Undefined, targetHandle |-> Undefined]

RECURSIVE CalcEdgeSeq(_, _)
CalcEdgeSeq(chosen, i) ==
    IF i > Len(CalcPairs) THEN <<>>
    ELSE IF i \in chosen THEN <<CalcEdge(i)>> \o CalcEdgeSeq(chosen, i + 1)
         ELSE CalcEdgeSeq(chosen, i + 1)

InitCalc ==
    /\ \E st \in [CalcIds -> CalcStatuses], tm \in [CalcIds -> CalcTimes] :
          convexNodes = Some([i \in 1..Len(CalcOrder) |->
              CalcNode(CalcOrder[i], st[CalcOrder[i]], tm[CalcOrder[i]][1], tm[CalcOrder[i]][2])])
    /\ \E chosen \in SUBSET (1..Len(CalcPairs)) :
          convexEdges = Some(CalcEdgeSeq(chosen, 1))
    /\ clockPopup = <<>>
    /\ now = 0 /\ dragState = None /\ connectorPlacement = None
    /\ localStorage = None /\ sessionReturned = <<>>
    /\ InitPresenceIdle /\ InitRetryIdle
    /\ dbNodes = convexNodes[1] /\ dbEdges = convexEdges[1]
    /\ nodesDirty = FALSE /\ edgesDirty = FALSE /\ nextId = 0
    /\ nodes = SyncedNodes(convexNodes[1], <<>>)
    /\ edges = reactFlowEdges(convexEdges, convexNodes)
    /\ pendingOperationsRef = <<>>
    /\ lastSyncedConvexDataRef = Some(ConvexDataHash(convexNodes[1]))
    /\ conflictDetected = FALSE /\ conflictWarnings = {}
    /\ inflight = <<>> /\ toastError = None /\ lastLocal = <<>>

NextCalc == \E n \in CalcIds : ClockClick(n)

SpecCalc == InitCalc /\ [][NextCalc]_vars

----------------------------------------------------------------------------
(* Specification of the sync engine: one stored node, this client editing  *)
(* its text and status while another client writes its text.               *)

SyncTexts == {"New Node", "a"}

InitClient ==
    /\ convexNodes = None /\ convexEdges = None
    /\ nodes = <<>> /\ edges = <<>>
    /\ pendingOperationsRef = <<>> /\ lastSyncedConvexDataRef = None
    /\ conflictDetected = FALSE /\ conflictWarnings = {}
    /\ inflight = <<>> /\ toastError = None /\ lastLocal = <<>>
    /\ clockPopup = <<>>
    /\ now = 0 /\ dragState = None /\ connectorPlacement = None
    /\ localStorage = None /\ sessionReturned = <<>>
    /\ InitPresenceIdle /\ InitRetryIdle

InitSync ==
    /\ dbNodes = <<StoredNode("n1", 0, 0, 200 * CoordUnit, 200 * CoordUnit, <<>>)>>
    /\ dbEdges = <<>>
    /\ nodesDirty = TRUE /\ edgesDirty = TRUE /\ nextId = 1
    /\ InitClient

NextSync ==
    \/ DeliverNodes
    \/ DeliverEdges
    \/ ConflictTimeout
    \/ \E id \in EditableIds, t \in SyncTexts : LabelChange(id, t)
    \/ \E id \in EditableIds : StatusChange(id)
    \/ FieldUpdateResolved
    \/ FieldUpdateRejected
    \/ StatusUpdateResolved
    \/ StatusUpdateRejected
    \/ \E t \in SyncTexts : OtherClientUpdate("n1", "text", t)

SpecSync == InitSync /\ [][NextSync]_vars

(* The same with the timer of the conflict signal: a timeout that is due   *)
(* fires.                                                                  *)
SpecSyncTimer == InitSync /\ [][NextSync]_vars /\ WF_vars(ConflictTimeout)

----------------------------------------------------------------------------
(* Specification of the connectors: two stored nodes, each with the input  *)
(* and the output the creation gesture gives a node; this client connects  *)
(* the handles of n1 to the body of n2 and deletes connectors of n2, its   *)
(* created output excepted.                                                *)

ConnNodeIds == {"n1", "n2"}
CreatedConnectors ==
    << Connector("input-0", "input", "left", Percent(1, 2)),
       Connector("output-0", "output", "right", Percent(1, 2)) >>
ConnConnectorIds ==
    {"input-0", "output-0"} \cup {InputIdAt(t) : t \in Ticks} \cup {OutputIdAt(t) : t \in Ticks}

InitConn ==
    /\ dbNodes = << StoredNode("n1", 0, 0, 200 * CoordUnit, 200 * CoordUnit,
                               CreatedConnectors),
                    StoredNode("n2", 400 * CoordUnit, 0, 200 * CoordUnit, 200 * CoordUnit,
                               CreatedConnectors) >>
    /\ dbEdges = <<>>
    /\ nodesDirty = TRUE /\ edgesDirty = TRUE /\ nextId = 2
    /\ InitClient

NextConn ==
    \/ DeliverNodes
    \/ DeliverEdges
    \/ \E handleId \in ConnConnectorIds, handleType \in {"source", "target"} :
          ConnectEnd("n1", handleId, handleType, "n2")
    \/ \E connectorId \in ConnConnectorIds \ {"output-0"} : ConnectorDelete("n2", connectorId)
    \/ ConnectorsUpdateResolved
    \/ ConnectorsUpdateRejected
    \/ CreateEdgeResolved
    \/ CreateEdgeRejected
    \/ RemoveEdgeSettled

SpecConn == InitConn /\ [][NextConn]_vars

----------------------------------------------------------------------------
(* Specification of the canvas geometry: one stored node; this client      *)
(* draws nodes with the two-phase gesture and, between two gestures, drags *)
(* the stored node.                                                        *)

(* clientX, clientY of the mouse events *)
ScreenPoints == {<<0, 0>>, <<100, 60>>, <<1300, 60>>}

(* viewports <<x, y, zoom>>: the default one, one panned to the right      *)
(* edge of the canvas and one at minZoom                                   *)
Viewports == {<<0, 0, <<1, 1>>>>, <<-3700, 0, <<1, 1>>>>, <<650, 300, <<1, 10>>>>}

(* positions a drag ends at *)
DragPositions == {<<0, 0>>, <<4990 * CoordUnit, 0>>}

InitGesture ==
    /\ dbNodes = <<StoredNode("n1", 0, 0, 200 * CoordUnit, 200 * CoordUnit,
                              CreatedConnectors)>>
    /\ dbEdges = <<>>
    /\ nodesDirty = TRUE /\ edgesDirty = FALSE /\ nextId = 1
    /\ convexNodes = None /\ convexEdges = Some(<<>>)
    /\ nodes = <<>> /\ edges = <<>>
    /\ pendingOperationsRef = <<>> /\ lastSyncedConvexDataRef = None
    /\ conflictDetected = FALSE /\ conflictWarnings = {}
    /\ inflight = <<>> /\ toastError = None /\ lastLocal = <<>>
    /\ clockPopup = <<>>
    /\ now = 0 /\ dragState = None /\ connectorPlacement = None
    /\ localStorage = None /\ sessionReturned = <<>>
    /\ InitPresenceIdle /\ InitRetryIdle

NextGesture ==
    \/ DeliverNodes
    \/ ConflictTimeout
    \/ \E p \in ScreenPoints : MouseDown(p[1], p[2])
    \/ \E p \in ScreenPoints : MouseMove(p[1], p[2])
    \/ \E p \in ScreenPoints : MouseUpSizing(p[1], p[2])
    \/ \E viewport \in Viewports : MouseUpPlacing(viewport)
    \/ CreateNodeResolved
    \/ CreateNodeRejected
    \/ /\ dragState = None /\ connectorPlacement = None
       /\ \E p \in DragPositions : NodeDragStop("n1", p[1], p[2])
    \/ PositionUpdateResolved
    \/ PositionUpdateRejected

SpecGesture == InitGesture /\ [][NextGesture]_vars

----------------------------------------------------------------------------
(* Specification of the optimistic creation: one stored node; this client  *)
(* draws nodes with the two-phase gesture under the default viewport, and  *)
(* each createNode call succeeds or fails.                                 *)

CreatePoints == {<<0, 0>>, <<100, 60>>, <<200, 200>>}
CreateViewport == <<0, 0, <<1, 1>>>>

NextCreate ==
    \/ DeliverNodes
    \/ \E p \in CreatePoints : MouseDown(p[1], p[2])
    \/ \E p \in CreatePoints : MouseMove(p[1], p[2])
    \/ \E p \in CreatePoints : MouseUpSizing(p[1], p[2])
    \/ MouseUpPlacing(CreateViewport)
    \/ CreateNodeResolved
    \/ CreateNodeRejected

SpecCreate == InitGesture /\ [][NextCreate]_vars

----------------------------------------------------------------------------
(* Specification of the two phases of the gesture under the default        *)
(* viewport: rectangles at and around the minimum size, and connector      *)
(* distances from 0 to beyond the one of the maximum count.                *)

(* clientX, clientY of the mouse events *)
SizingPoints == {<<0, 0>>, <<50, 50>>, <<49, 50>>, <<118, 50>>, <<250, 50>>}

NextSizing ==
    \/ DeliverNodes
    \/ \E p \in SizingPoints : MouseDown(p[1], p[2])
    \/ \E p \in SizingPoints : MouseMove(p[1], p[2])
    \/ \E p \in SizingPoints : MouseUpSizing(p[1], p[2])
    \/ MouseUpPlacing(CreateViewport)
    \/ CreateNodeResolved
    \/ CreateNodeRejected

SpecSizing == InitGesture /\ [][NextSizing]_vars

----------------------------------------------------------------------------
(* Specification of the end of the gesture: the viewport at zoom 1, at     *)
(* maxZoom and at minZoom, and pointer events while createNode calls are   *)
(* in flight.                                                              *)

(* the placement phase is finished at most this many times *)
MaxFinishes == 2

(* clientX, clientY of the mouse events *)
PlacePoints == {<<0, 0>>, <<50, 50>>, <<250, 50>>}

(* viewports <<x, y, zoom>> at zoom 1, 4 (maxZoom) and 0.1 (minZoom) *)
PlaceViewports == {<<0, 0, <<1, 1>>>>, <<0, 0, <<4, 1>>>>, <<0, 0, <<1, 10>>>>}

NextPlace ==
    \/ DeliverNodes
    \/ \E p \in PlacePoints : MouseDown(p[1], p[2])
    \/ \E p \in PlacePoints : MouseMove(p[1], p[2])
    \/ \E p \in PlacePoints : MouseUpSizing(p[1], p[2])
    \/ \E viewport \in PlaceViewports : FinishPlacement(viewport, MaxFinishes)
    \/ CreateNodeResolved
    \/ CreateNodeRejected

SpecPlace == InitGesture /\ [][NextPlace]_vars

----------------------------------------------------------------------------
(* Specification of the conflict check: the client has processed the       *)
(* snapshot of one stored node at (10, 10), one of its handlers has left a *)
(* pending record, and the store has moved on (the call's own write and    *)
(* the writes of other clients) to a row drawn from the sets below.        *)

ConflictBase == StoredNode("n1", 10 * CoordUnit, 10 * CoordUnit, 200 * CoordUnit, 200 * CoordUnit,
               <<>>)

(* the pending records the handlers leave: [type, data] *)
ConflictOps ==
    { [type |-> "position", data |-> <<10 * CoordUnit, 10 * CoordUnit>>],
      [type |-> "text", data |-> "a"],
      [type |-> "description", data |-> "d"],
      [type |-> "status", data |-> "can start"],
      [type |-> "timeEstimate", data |-> Some(2)],
      [type |-> "timeUnit", data |-> "days"] }

(* stored coordinates, in units of 1/CoordUnit: 8.5, 9, .. 11.5 and 20 *)
ConflictXs == {34, 36, 38, 40, 42, 44, 46, 80}
ConflictYs == {36, 40, 42, 46}
ConflictTexts == {"New Node", "a", "A"}
ConflictDescriptions == {Undefined, "d"}
ConflictStatuses == {"not ready", "can start"}
ConflictEstimates == {None, Some(2), Some(3)}
ConflictUnits == {Undefined, "days", "hours"}

(* the local nodes after the handler of the pending record ran: the drag   *)
(* and the status click have changed the local node, the others have not   *)
ConflictLocal(op) ==
    LET synced == SyncedNodes(<<ConflictBase>>, <<>>)
    IN  IF op.type = "position"
        THEN [synced EXCEPT ![1].x = op.data[1], ![1].y = op.data[2]]
        ELSE IF op.type = "status" THEN [synced EXCEPT ![1].status = op.data]
        ELSE synced

InitConflict ==
    /\ \E x \in ConflictXs, y \in ConflictYs, t \in ConflictTexts,
          d \in ConflictDescriptions, st \in ConflictStatuses,
          te \in ConflictEstimates, tu \in ConflictUnits :
          dbNodes = <<[ConflictBase EXCEPT !.x = x, !.y = y, !.text = t, !.description = d,
                                           !.status = st, !.timeEstimate = te,
                                           !.timeUnit = tu]>>
    /\ dbEdges = <<>>
    /\ nodesDirty = TRUE /\ edgesDirty = FALSE /\ nextId = 1
    /\ convexNodes = Some(<<ConflictBase>>) /\ convexEdges = Some(<<>>)
    /\ lastSyncedConvexDataRef = Some(ConvexDataHash(<<ConflictBase>>))
    /\ \E op \in ConflictOps :
          /\ pendingOperationsRef = [k \in {"n1"} |-> op]
          /\ nodes = ConflictLocal(op)
    /\ edges = <<>>
    /\ conflictDetected = FALSE /\ conflictWarnings = {}
    /\ inflight = <<>> /\ toastError = None /\ lastLocal = <<>>
    /\ clockPopup = <<>>
    /\ now = 0 /\ dragState = None /\ connectorPlacement = None
    /\ localStorage = None /\ sessionReturned = <<>>
    /\ InitPresenceIdle /\ InitRetryIdle

NextConflict ==
    \/ DeliverNodes
    \/ ConflictTimeout

SpecConflict == InitConflict /\ [][NextConflict]_vars

----------------------------------------------------------------------------
(* The store's mutations on nodes and edges (convex/nodes.ts and the edges *)
(* module), as any client may call them.  A Convex mutation is one         *)
(* transaction: its reads and writes are one step.                         *)

DbEdgeIndex(id) ==
    IF \E i \in 1..Len(dbEdges) : dbEdges[i]._id = id
    THEN CHOOSE i \in 1..Len(dbEdges) : dbEdges[i]._id = id
    ELSE 0
DbHasEdge(id) == DbEdgeIndex(id) /= 0

(* Mutant of EdgesWithoutNode: the edges of the node are left in place.    *)
EdgesWithoutNode_NoCascade(eds, id) == eds

(* the edges left when every edge with id as its source or target is       *)
(* deleted (remove of nodes, removeByNode of edges)                        *)
EdgesWithoutNode(eds, id) ==
    SelectSeq(eds, LAMBDA e : e.source /= id /\ e.target /= id)

(* ctx.db.delete(id) on the nodes table *)
NodesWithoutId(ns, id) == SelectSeq(ns, LAMBDA n : n._id /= id)

(* ctx.db.delete(id) on the edges table *)
EdgesWithoutId(eds, id) == SelectSeq(eds, LAMBDA e : e._id /= id)

(* create of edges: both end nodes exist, else the mutation throws *)
EndpointsExist(params) == DbHas(params.source) /\ DbHas(params.target)

(* the row ctx.db.insert("edges", args) stores *)
StoredEdge(id, params) ==
    [_id |-> id, source |-> params.source, target |-> params.target,
     sourceHandle |-> params.sourceHandle, targetHandle |-> params.targetHandle]

(* another client's createNode *)
OtherClientCreateNode ==
    /\ nextId < Len(NodeIdSeq)
    /\ dbNodes' = Append(dbNodes,
          StoredNode(NodeIdSeq[nextId + 1], 0, 0, 200 * CoordUnit, 200 * CoordUnit,
                     CreatedConnectors))
    /\ nextId' = nextId + 1
    /\ nodesDirty' = TRUE
    /\ Silent
    /\ UNCHANGED <<dbEdges, edgesDirty, queryVars, localVars, trackVars, callVars,
                   clockPopup, uiVars,
                   sessionVars, presenceVars, retryVars>>

(* another client's removeNode of a stored node: its edges and the node    *)
(* are deleted together                                                    *)
OtherClientRemoveNode(id) ==
    /\ DbHas(id)
    /\ dbEdges' = EdgesWithoutNode(dbEdges, id)
    /\ dbNodes' = NodesWithoutId(dbNodes, id)
    /\ nodesDirty' = TRUE
    /\ edgesDirty' = (edgesDirty \/ dbEdges' /= dbEdges)
    /\ Silent
    /\ UNCHANGED <<nextId, queryVars, localVars, trackVars, callVars, clockPopup, uiVars,
                   sessionVars, presenceVars, retryVars>>

(* another client's createEdge: inserted when both end nodes exist,        *)
(* rejected (the store unchanged) otherwise                                *)
OtherClientCreateEdge(params) ==
    /\ nextId < Len(EdgeIdSeq)
    /\ IF EndpointsExist(params)
       THEN /\ dbEdges' = Append(dbEdges, StoredEdge(EdgeIdSeq[nextId + 1], params))
            /\ nextId' = nextId + 1
            /\ edgesDirty' = TRUE
       ELSE UNCHANGED <<dbEdges, nextId, edgesDirty>>
    /\ Silent
    /\ UNCHANGED <<dbNodes, nodesDirty, queryVars, localVars, trackVars, callVars,
                   clockPopup, uiVars,
                   sessionVars, presenceVars, retryVars>>

(* another client's removeEdge: a no-op when the edge is gone *)
OtherClientRemoveEdge(id) ==
    /\ dbEdges' = IF DbHasEdge(id) THEN EdgesWithoutId(dbEdges, id) ELSE dbEdges
    /\ edgesDirty' = (edgesDirty \/ dbEdges' /= dbEdges)
    /\ Silent
    /\ UNCHANGED <<dbNodes, nodesDirty, nextId, queryVars, localVars, trackVars, callVars,
                   clockPopup, uiVars,
                   sessionVars, presenceVars, retryVars>>

(* another client's removeEdgesByNode *)
OtherClientRemoveEdgesByNode(id) ==
    /\ dbEdges' = EdgesWithoutNode(dbEdges, id)
    /\ edgesDirty' = (edgesDirty \/ dbEdges' /= dbEdges)
    /\ Silent
    /\ UNCHANGED <<dbNodes, nodesDirty, nextId, queryVars, localVars, trackVars, callVars,
                   clockPopup, uiVars,
                   sessionVars, presenceVars, retryVars>>

----------------------------------------------------------------------------
(* Specification of the store: two stored nodes; clients create and remove *)
(* nodes and edges in any order, naming nodes and edges that exist, that   *)
(* are gone and that were never created.                                   *)

StoreNodeIds == SeqRange(NodeIdSeq)
StoreEdgeIds == SeqRange(EdgeIdSeq)
(* <<sourceHandle, targetHandle>> of a created edge *)
StoreHandles == {<<Undefined, Undefined>>, <<"output-0", "input-0">>}

NextStore ==
    \/ OtherClientCreateNode
    \/ \E id \in StoreNodeIds : OtherClientRemoveNode(id)
    \/ \E s \in StoreNodeIds, t \in StoreNodeIds, h \in StoreHandles :
          OtherClientCreateEdge(EdgeParams(s, h[1], t, h[2]))
    \/ \E id \in StoreEdgeIds : OtherClientRemoveEdge(id)
    \/ \E id \in StoreNodeIds : OtherClientRemoveEdgesByNode(id)

SpecStore == InitConn /\ [][NextStore]_vars

----------------------------------------------------------------------------
(* onConnect: a connection made on two handles.                            *)

(* the id ReactFlow's addEdge gives an edge that has none:                 *)
(* `reactflow__edge-${source}${sourceHandle}-${target}${targetHandle}`,    *)
(* for the connections between the created connectors of n1 and n2         *)
AutoEdgeId(params) ==
    IF params.source = "n1"
    THEN "reactflow__edge-n1output-0-n2input-0"
    ELSE "reactflow__edge-n2output-0-n1input-0"

(* onConnect with connectionStart unset: the connection was made by        *)
(* clicking the two handles, for which ReactFlow does not call             *)
(* onConnectStart.  The edge is added as it is and createEdge is called.   *)
ConnectPlain(params) ==
    /\ Len(inflight) < MaxInFlight
    /\ params.source \in EditableIds /\ params.target \in EditableIds
    /\ edges' = AddEdge([id |-> AutoEdgeId(params), source |-> params.source,
                         target |-> params.target, sourceHandle |-> params.sourceHandle,
                         targetHandle |-> params.targetHandle], edges)
    /\ inflight' = Append(inflight, Call("createEdge", AutoEdgeId(params), params, "plain"))
    /\ Silent
    /\ UNCHANGED <<storeVars, queryVars, nodes, trackVars, clockPopup, uiVars,
                   sessionVars, presenceVars, retryVars>>

(* onConnect with connectionStart set (the connection was dragged) and     *)
(* both handles given: no connector is looked for, the temporary edge is   *)
(* added and createEdge is called.                                         *)
ConnectDragged(params) ==
    /\ Len(inflight) < MaxInFlight
    /\ now < MaxNow
    /\ params.source \in EditableIds /\ params.target \in EditableIds
    /\ BeginCreateEdge(params, inflight)
    /\ Silent
    /\ UNCHANGED <<storeVars, queryVars, nodes, trackVars, clockPopup, dragState,
                   connectorPlacement,
                   sessionVars, presenceVars, retryVars>>

(* createEdge of the plain path succeeds: nothing is done locally *)
PlainCreateEdgeResolved ==
    /\ inflight /= <<>> /\ Head(inflight).op = "createEdge"
    /\ Head(inflight).orig = "plain"
    /\ nextId < Len(EdgeIdSeq)
    /\ EndpointsExist(Head(inflight).arg)
    /\ dbEdges' = Append(dbEdges, StoredEdge(EdgeIdSeq[nextId + 1], Head(inflight).arg))
    /\ nextId' = nextId + 1
    /\ edgesDirty' = TRUE
    /\ inflight' = Tail(inflight)
    /\ Silent
    /\ UNCHANGED <<dbNodes, nodesDirty, queryVars, localVars, trackVars, clockPopup, uiVars,
                   sessionVars, presenceVars, retryVars>>

(* createEdge of the plain path fails: the catch block logs the error *)
PlainCreateEdgeRejected ==
    /\ inflight /= <<>> /\ Head(inflight).op = "createEdge"
    /\ Head(inflight).orig = "plain"
    /\ inflight' = Tail(inflight)
    /\ Silent
    /\ UNCHANGED <<storeVars, queryVars, localVars, trackVars, clockPopup, uiVars,
                   sessionVars, presenceVars, retryVars>>

----------------------------------------------------------------------------
(* Specification of the edge creation: two stored nodes with their created *)
(* connectors; this client connects n1 and n2 by dragging from a handle of *)
(* n1 to the body of n2, by dragging from an output to an input handle and *)
(* by clicking an output and an input handle.                              *)

LinkParams ==
    {EdgeParams("n1", "output-0", "n2", "input-0"),
     EdgeParams("n2", "output-0", "n1", "input-0")}

NextLink ==
    \/ DeliverNodes
    \/ DeliverEdges
    \/ \E handleId \in {"input-0", "output-0"}, handleType \in {"source", "target"} :
          ConnectEnd("n1", handleId, handleType, "n2")
    \/ \E params \in LinkParams : ConnectDragged(params)
    \/ \E params \in LinkParams : ConnectPlain(params)
    \/ ConnectorsUpdateResolved
    \/ ConnectorsUpdateRejected
    \/ CreateEdgeResolved
    \/ CreateEdgeRejected
    \/ PlainCreateEdgeResolved
    \/ PlainCreateEdgeRejected

SpecLink == InitConn /\ [][NextLink]_vars

----------------------------------------------------------------------------
(* Specification of the automatic choice of a handle: connections are      *)
(* dragged from the handles of n1 onto the body of n2 while another client *)
(* does the same.                                                          *)

AssignHandleIds == {"input-0", "output-0"}

(* the edges another client creates *)
AssignOtherParams ==
    {EdgeParams("n1", "output-0", "n2", "input-0"),
     EdgeParams("n2", "output-0", "n1", "input-0")}

NextAssign ==
    \/ DeliverNodes
    \/ DeliverEdges
    \/ \E handleId \in AssignHandleIds, handleType \in {"source", "target"} :
          ConnectEnd("n1", handleId, handleType, "n2")
    \/ ConnectorsUpdateResolved
    \/ ConnectorsUpdateRejected
    \/ CreateEdgeResolved
    \/ CreateEdgeRejected
    \/ \E params \in AssignOtherParams : OtherClientCreateEdge(params)

SpecAssign == InitConn /\ [][NextAssign]_vars

----------------------------------------------------------------------------
(* Specification of the open popups: two stored nodes with estimates of 2  *)
(* and 3 hours; this client opens and closes their clock popups while      *)
(* another client connects and disconnects them and changes the status and *)
(* the estimate of n1.                                                     *)

PopupNode(id, hours) ==
    [StoredNode(id, 0, 0, 200 * CoordUnit, 200 * CoordUnit, CreatedConnectors)
        EXCEPT !.timeEstimate = Some(hours), !.timeUnit = "hours"]

InitPopup ==
    /\ dbNodes = <<PopupNode("n1", 2), PopupNode("n2", 3)>>
    /\ dbEdges = <<>>
    /\ nodesDirty = TRUE /\ edgesDirty = TRUE /\ nextId = 2
    /\ InitClient

NextPopup ==
    \/ DeliverNodes
    \/ DeliverEdges
    \/ \E n \in {"n1", "n2"} : ClockClick(n)
    \/ OtherClientCreateEdge(EdgeParams("n1", "output-0", "n2", "input-0"))
    \/ \E id \in {"e3", "e4"} : DbHasEdge(id) /\ OtherClientRemoveEdge(id)
    \/ \E st \in {"not ready", "complete"} : OtherClientUpdate("n1", "status", st)
    \/ \E hours \in {1, 2} : OtherClientUpdate("n1", "timeEstimate", Some(hours))

SpecPopup == InitPopup /\ [][NextPopup]_vars

----------------------------------------------------------------------------
(* Deleting nodes and edges: onNodesDelete, onEdgesDelete and the delete   *)
(* key over a hovered node.                                                *)

(* the local nodes hold at most this many nodes when a hovered node is     *)
(* deleted                                                                 *)
MaxLocalNodes == 7

RECURSIVE UniqueById(_)
(* Array.from(new Map(deleted.map(edge => [edge.id, edge])).values()):     *)
(* one edge per id, in the order the ids first occur, each the last edge   *)
(* given with its id                                                       *)
UniqueById(eds) ==
    IF eds = <<>> THEN <<>>
    ELSE LET same == SelectSeq(eds, LAMBDA e : e.id = Head(eds).id)
         IN  <<same[Len(same)]>>
             \o UniqueById(SelectSeq(eds, LAMBDA e : e.id /= Head(eds).id))

(* deletingEdgesRef.current, given the calls in flight: an id is added     *)
(* just before removeEdge is called for it in onEdgesDelete and deleted    *)
(* when that call has returned                                             *)
deletingEdgesRef(calls) ==
    {calls[i].id : i \in {j \in 1..Len(calls) :
        calls[j].op = "removeEdge" /\ calls[j].orig.by = "onEdgesDelete"}}

RECURSIVE EdgesDeleteLoop(_, _)
(* the for loop of onEdgesDelete over the edges todo: an edge that is      *)
(* being deleted is skipped; for the first other edge removeEdge is called *)
(* and the loop waits for it, the edges after it still to do               *)
EdgesDeleteLoop(todo, calls) ==
    IF todo = <<>> THEN <<>>
    ELSE IF Head(todo).id \in deletingEdgesRef(calls)
         THEN EdgesDeleteLoop(Tail(todo), calls)
         ELSE <<Call("removeEdge", Head(todo).id, None,
                     [by |-> "onEdgesDelete", edge |-> Head(todo), rest |-> Tail(todo)])>>

(* edges.filter(e => e.source === id || e.target === id) *)
ConnectedEdges(eds, id) == SelectSeq(eds, LAMBDA e : e.source = id \/ e.target = id)

(* The delete key with edges selected: ReactFlow calls onEdgesDelete with  *)
(* the edges, `deleted` (an edge may be given twice), and removes them     *)
(* from the local edges.                                                   *)
EdgesDeleteSelected(deleted) ==
    /\ Len(inflight) < MaxInFlight
    /\ deleted /= <<>>
    /\ \A k \in 1..Len(deleted) : \E i \in 1..Len(edges) : edges[i] = deleted[k]
    /\ edges' = SelectSeq(edges, LAMBDA e : \A k \in 1..Len(deleted) : deleted[k].id /= e.id)
    /\ inflight' = inflight \o EdgesDeleteLoop(UniqueById(deleted), inflight)
    /\ Silent
    /\ UNCHANGED <<storeVars, queryVars, nodes, trackVars, clockPopup, uiVars,
                   sessionVars, presenceVars, retryVars>>

(* The delete key with node id selected: ReactFlow calls onEdgesDelete     *)
(* with the edges connected to the node, then onNodesDelete with the node, *)
(* and removes the edges and the node from the local state.                *)
NodesDeleteSelected(id) ==
    /\ Len(inflight) < MaxInFlight
    /\ id \in EditableIds
    /\ edges' = SelectSeq(edges, LAMBDA e : e.source /= id /\ e.target /= id)
    /\ nodes' = WithoutNode(nodes, id)
    /\ inflight' = Append(inflight
                             \o EdgesDeleteLoop(UniqueById(ConnectedEdges(edges, id)), inflight),
                          Call("removeEdgesByNode", id, None, [node |-> LocalNode(id)]))
    /\ Silent
    /\ UNCHANGED <<storeVars, queryVars, trackVars, clockPopup, uiVars,
                   sessionVars, presenceVars, retryVars>>

(* The delete key over hovered node id, the node not selected: handleKeyDown *)
(* calls onNodesDelete with the node; the local state is not touched.      *)
NodeDeleteHovered(id) ==
    /\ Len(inflight) < MaxInFlight
    /\ \E i \in 1..Len(nodes) : nodes[i].id = id
    /\ inflight' = Append(inflight,
                          Call("removeEdgesByNode", id, None, [node |-> LocalNode(id)]))
    /\ Silent
    /\ UNCHANGED <<storeVars, queryVars, localVars, trackVars, clockPopup, uiVars,
                   sessionVars, presenceVars, retryVars>>

(* removeEdge of onEdgesDelete returns: the store has deleted the edge, or *)
(* found none (a no-op); the loop goes on.                                 *)
RemoveEdgeResolved ==
    /\ inflight /= <<>> /\ Head(inflight).op = "removeEdge"
    /\ Head(inflight).orig.by = "onEdgesDelete"
    /\ dbEdges' = IF DbHasEdge(Head(inflight).id)
                  THEN EdgesWithoutId(dbEdges, Head(inflight).id) ELSE dbEdges
    /\ edgesDirty' = (edgesDirty \/ dbEdges' /= dbEdges)
    /\ inflight' = Tail(inflight) \o EdgesDeleteLoop(Head(inflight).orig.rest, Tail(inflight))
    /\ Silent
    /\ UNCHANGED <<dbNodes, nodesDirty, nextId, queryVars, localVars, trackVars, clockPopup,
                   uiVars,
                   sessionVars, presenceVars, retryVars>>

(* removeEdge of onEdgesDelete fails with an error that is not a "not      *)
(* found" one: the edge is put back and a toast raised; the loop goes on.  *)
RemoveEdgeRejected ==
    /\ inflight /= <<>> /\ Head(inflight).op = "removeEdge"
    /\ Head(inflight).orig.by = "onEdgesDelete"
    /\ edges' = Append(edges, Head(inflight).orig.edge)
    /\ toastError' = Some("Failed to delete connection. Please try again.")
    /\ conflictWarnings' = {}
    /\ inflight' = Tail(inflight) \o EdgesDeleteLoop(Head(inflight).orig.rest, Tail(inflight))
    /\ UNCHANGED <<storeVars, queryVars, nodes, trackVars, clockPopup, uiVars,
                   sessionVars, presenceVars, retryVars>>

(* the catch block of onNodesDelete: the node is appended to the local     *)
(* nodes and a toast raised                                                *)
NodesDeleteFailed ==
    /\ nodes' = Append(nodes, Head(inflight).orig.node)
    /\ toastError' = Some("Failed to delete node. Please try again.")
    /\ conflictWarnings' = {}
    /\ inflight' = Tail(inflight)
    /\ UNCHANGED <<storeVars, queryVars, edges, trackVars, clockPopup, uiVars,
                   sessionVars, presenceVars, retryVars>>

(* removeEdgesByNode returns: the store has deleted the edges of the node; *)
(* onNodesDelete goes on to call removeNode.                               *)
RemoveEdgesByNodeResolved ==
    /\ inflight /= <<>> /\ Head(inflight).op = "removeEdgesByNode"
    /\ dbEdges' = EdgesWithoutNode(dbEdges, Head(inflight).id)
    /\ edgesDirty' = (edgesDirty \/ dbEdges' /= dbEdges)
    /\ inflight' = Append(Tail(inflight),
                          Call("removeNode", Head(inflight).id, None, Head(inflight).orig))
    /\ Silent
    /\ UNCHANGED <<dbNodes, nodesDirty, nextId, queryVars, localVars, trackVars, clockPopup,
                   uiVars,
                   sessionVars, presenceVars, retryVars>>

(* removeEdgesByNode fails *)
RemoveEdgesByNodeRejected ==
    /\ inflight /= <<>> /\ Head(inflight).op = "removeEdgesByNode"
    /\ NodesDeleteFailed

(* removeNode returns: the store has deleted the node and its edges *)
RemoveNodeResolved ==
    /\ inflight /= <<>> /\ Head(inflight).op = "removeNode"
    /\ DbHas(Head(inflight).id)
    /\ dbEdges' = EdgesWithoutNode(dbEdges, Head(inflight).id)
    /\ dbNodes' = NodesWithoutId(dbNodes, Head(inflight).id)
    /\ nodesDirty' = TRUE
    /\ edgesDirty' = (edgesDirty \/ dbEdges' /= dbEdges)
    /\ inflight' = Tail(inflight)
    /\ Silent
    /\ UNCHANGED <<nextId, queryVars, localVars, trackVars, clockPopup, uiVars,
                   sessionVars, presenceVars, retryVars>>

(* removeNode of a node the store no longer holds: ctx.db.delete of a      *)
(* missing document throws, and the call fails                             *)
RemoveNodeMissing ==
    /\ inflight /= <<>> /\ Head(inflight).op = "removeNode"
    /\ ~DbHas(Head(inflight).id)
    /\ NodesDeleteFailed

(* removeNode fails for another reason *)
RemoveNodeRejected ==
    /\ inflight /= <<>> /\ Head(inflight).op = "removeNode"
    /\ NodesDeleteFailed

----------------------------------------------------------------------------
(* Specification of the deletions: two stored nodes and the edge from the  *)
(* output of n1 to the input of n2; this client deletes the edge, the node *)
(* n2 and the input of n2 while another client removes the node or the     *)
(* edge.  One node is deleted at a time; an edge may be given twice in one *)
(* batch, as ReactFlow does for a selected edge of a selected node.        *)

DeleteEdge == StoredEdge("e3", EdgeParams("n1", "output-0", "n2", "input-0"))

InitDelete ==
    /\ dbNodes = << StoredNode("n1", 0, 0, 200 * CoordUnit, 200 * CoordUnit,
                               CreatedConnectors),
                    StoredNode("n2", 400 * CoordUnit, 0, 200 * CoordUnit, 200 * CoordUnit,
                               CreatedConnectors) >>
    /\ dbEdges = <<DeleteEdge>>
    /\ nodesDirty = TRUE /\ edgesDirty = TRUE /\ nextId = 3
    /\ InitClient

NextDelete ==
    \/ DeliverNodes
    \/ DeliverEdges
    \/ \E i \in 1..Len(edges) :
          \E deleted \in {<<edges[i]>>, <<edges[i], edges[i]>>} : EdgesDeleteSelected(deleted)
    \/ NodesDeleteSelected("n2")
    \/ Len(nodes) < MaxLocalNodes /\ NodeDeleteHovered("n2")
    \/ ConnectorDelete("n2", "input-0")
    \/ ConnectorsUpdateResolved
    \/ ConnectorsUpdateRejected
    \/ RemoveEdgeSettled
    \/ RemoveEdgeResolved
    \/ RemoveEdgeRejected
    \/ RemoveEdgesByNodeResolved
    \/ RemoveEdgesByNodeRejected
    \/ RemoveNodeResolved
    \/ RemoveNodeMissing
    \/ RemoveNodeRejected
    \/ OtherClientRemoveNode("n2")
    \/ OtherClientRemoveEdge("e3")

SpecDelete == InitDelete /\ [][NextDelete]_vars

----------------------------------------------------------------------------
(* The browser session (utils/session.ts).  A JavaScript value is an object *)
(* of string properties or null; a text is what localStorage holds.        *)

MaxSessionCalls == 3
SessionKeys == <<"id", "userName", "color">>

JsNull == [type |-> "null", fields |-> [k \in {} |-> ""]]
JsObject(fields) == [type |-> "object", fields |-> fields]

EmptyText == [kind |-> "empty", members |-> <<>>]      \* ""
CorruptText == [kind |-> "corrupt", members |-> <<>>]  \* not JSON, e.g. "{id:"
NullText == [kind |-> "null", members |-> <<>>]        \* "null"

(* JSON.stringify of a value: null gives "null"; an object gives its own   *)
(* properties as members in insertion order, a property whose value is     *)
(* undefined being left out.                                               *)
RECURSIVE StringifyMembers(_, _)
StringifyMembers(fields, keys) ==
    IF keys = <<>> THEN <<>>
    ELSE LET k == Head(keys)
             rest == StringifyMembers(fields, Tail(keys))
         IN  IF k \in DOMAIN fields /\ fields[k] /= Undefined
             THEN <<(<<k, fields[k]>>)>> \o rest
             ELSE rest

Stringify(value) ==
    IF value.type = "null" THEN NullText
    ELSE [kind |-> "object", members |-> StringifyMembers(value.fields, SessionKeys)]

(* JSON.parse throws a SyntaxError on a text that is not JSON *)
ParseThrows(text) == text.kind \in {"empty", "corrupt"}

(* JSON.parse of a JSON text: an object has one property per member key,   *)
(* the last member of a key giving its value.                              *)
Parse(text) ==
    IF text.kind = "null" THEN JsNull
    ELSE LET keys == {text.members[i][1] : i \in DOMAIN text.members}
             last(k) == CHOOSE i \in DOMAIN text.members :
                           /\ text.members[i][1] = k
                           /\ \A j \in DOMAIN text.members :
                                 text.members[j][1] = k => j <= i
         IN  JsObject([k \in keys |-> text.members[last(k)][2]])

(* generateSessionId, generateUserName, generateCursorColor: the values    *)
(* Math.random and Date.now can give, a few of each.                       *)
GeneratedIds == {"session-a-1", "session-b-1", "session-a-2"}
GeneratedUserNames == {"Quick Fox", "Brave Shark", "Calm Bear"}
GeneratedColors == {"#FF6B6B", "#4ECDC4", "#45B7D1", "#3498DB"}

Session(id, userName, color) ==
    JsObject([id |-> id, userName |-> userName, color |-> color])

(* the stored text is used as it is *)
Reusable_Never(stored) == FALSE

(* `if (stored)` and the try around JSON.parse: the stored text is used    *)
(* when the item exists, is not the empty string and parses.               *)
Reusable(stored) ==
    /\ stored /= None
    /\ stored[1].kind /= "empty"
    /\ ~ParseThrows(stored[1])

(* What a call that raised left in the history: reading localStorage      *)
(* throws a SecurityError when the user agent denies the page its storage  *)
(* (HTML Standard, the localStorage getter), and getOrCreateSession has no *)
(* try around that read.                                                   *)
JsThrown == [type |-> "throws", fields |-> [k \in {} |-> ""]]

(* One call of getOrCreateSession: null without a window; the parsed item  *)
(* when there is one that parses; else a generated session, which is       *)
(* stored.                                                                 *)
SessionCall ==
    /\ Len(sessionReturned) < MaxSessionCalls
    /\ IF storageAccess = "no window"
       THEN /\ sessionReturned' = Append(sessionReturned, JsNull)
            /\ UNCHANGED localStorage
       ELSE IF storageAccess = "denied"
       THEN /\ sessionReturned' = Append(sessionReturned, JsThrown)
            /\ UNCHANGED localStorage
       ELSE IF Reusable(localStorage)
       THEN /\ sessionReturned' = Append(sessionReturned, Parse(localStorage[1]))
            /\ UNCHANGED localStorage
       ELSE \E id \in GeneratedIds, userName \in GeneratedUserNames,
               color \in GeneratedColors :
               LET session_ == Session(id, userName, color)
               IN  /\ localStorage' = Some(Stringify(session_))
                   /\ sessionReturned' = Append(sessionReturned, session_)
    /\ UNCHANGED storageAccess

GetOrCreateSession ==
    /\ SessionCall
    /\ Silent
    /\ UNCHANGED <<storeVars, queryVars, localVars, trackVars, callVars, clockPopup,
                   uiVars, presenceVars, retryVars>>

(* Specification of the session alone: the item is absent, empty, not      *)
(* JSON, the JSON null, a session of an earlier visit, or an object that   *)
(* lacks properties of a session.                                          *)
StoredItems ==
    {None, Some(EmptyText), Some(CorruptText), Some(NullText),
     Some(Stringify(Session("session-k-0", "Happy Wolf", "#8E44AD"))),
     Some([kind |-> "object", members |-> <<(<<"id", "session-k-0">>)>>])}

InitSession ==
    /\ dbNodes = <<>> /\ dbEdges = <<>>
    /\ nodesDirty = FALSE /\ edgesDirty = FALSE /\ nextId = 0
    /\ convexNodes = None /\ convexEdges = None
    /\ nodes = <<>> /\ edges = <<>>
    /\ pendingOperationsRef = <<>> /\ lastSyncedConvexDataRef = None
    /\ conflictDetected = FALSE /\ conflictWarnings = {}
    /\ inflight = <<>> /\ toastError = None /\ lastLocal = <<>>
    /\ clockPopup = <<>>
    /\ now = 0 /\ dragState = None /\ connectorPlacement = None
    /\ localStorage \in StoredItems
    /\ sessionReturned = <<>>
    /\ InitPresenceIdle /\ InitRetryIdle

NextSession ==
    \/ GetOrCreateSession

SpecSession == InitSession /\ [][NextSession]_vars

----------------------------------------------------------------------------
(* Presence: the session and socket effect and the cursor tracking of      *)
(* Canvas.tsx on every peer, and the relay (server.js, given in howto.md). *)
(* A socket carries its events in order.  The relay stamps a cursor with   *)
(* Date.now(); the stamp is kept as the number of sweeps the cursor has    *)
(* seen since, and is left out of the copies sent on, which no canvas      *)
(* reads.                                                                  *)

MaxSamples == 2
SamplePoints == {0, 1}
SWEEP_INTERVAL == 5000
STALE_AFTER == 10000

CursorData(sessionId, x, y, userName, color) ==
    [sessionId |-> sessionId, x |-> x, y |-> y, userName |-> userName, color |-> color]

Event(name, data) == [event |-> name, data |-> data]

(* The session a peer other than p1 finds in its own storage *)
PeerSession(p) == Session(p, "Swift Hawk", "#DDA15E")

(* prev.filter((c) => c.sessionId !== sessionId) *)
WithoutCursor(list, sessionId) == SelectSeq(list, LAMBDA c : c.sessionId /= sessionId)

HasCursor(list, sessionId) == \E i \in DOMAIN list : list[i].sessionId = sessionId

(* cursors.set(sessionId, entry): a known key keeps its place in the Map *)
MapSet(map, entry) ==
    IF \E i \in DOMAIN map : map[i].data.sessionId = entry.data.sessionId
    THEN [i \in DOMAIN map |->
             IF map[i].data.sessionId = entry.data.sessionId THEN entry ELSE map[i]]
    ELSE Append(map, entry)

(* cursors.delete(sessionId) *)
MapDelete(map, sessionId) == SelectSeq(map, LAMBDA e : e.data.sessionId /= sessionId)

(* Array.from(cursors.values()) *)
MapValues(map) == [i \in DOMAIN map |-> map[i].data]

(* The sockets the relay holds open: a socket its peer has closed stays    *)
(* open at the relay until the relay has handled what the peer emitted.    *)
RelayOpen(p) == sockets[p] \in {"connected", "closing"}

(* socket.broadcast.emit: to every open socket but the sender's.  The      *)
(* mutant sends to the sender as well (io.emit).                           *)
BroadcastTargets_All(sender) == {q \in Peers : RelayOpen(q)}
BroadcastTargets(sender) == {q \in Peers : q /= sender /\ RelayOpen(q)}

Broadcast(sender, ev) ==
    [q \in Peers |-> IF q \in BroadcastTargets(sender)
                     THEN Append(toClient[q], ev) ELSE toClient[q]]

PresenceRest ==
    /\ Silent
    /\ UNCHANGED <<storeVars, queryVars, localVars, trackVars, callVars, clockPopup,
                   uiVars, retryVars>>

(* The session and socket effect of p1's canvas: a call that raises ends   *)
(* the effect before the socket is made; a null session is not set.        *)
Mount ==
    /\ sockets["p1"] = "none"
    /\ SessionCall
    /\ LET userSession == sessionReturned'[Len(sessionReturned')]
       IN  IF userSession = JsThrown
           THEN UNCHANGED <<session, sockets>>
           ELSE /\ session' = IF userSession = JsNull THEN session
                              ELSE [session EXCEPT !["p1"] = Some(userSession)]
                /\ sockets' = [sockets EXCEPT !["p1"] = "connecting"]
    /\ PresenceRest
    /\ UNCHANGED <<cursors, relayCursors, toServer, toClient, samples>>

(* The same effect on another peer, whose storage holds its session *)
PeerMount(p) ==
    /\ p /= "p1" /\ sockets[p] = "none"
    /\ session' = [session EXCEPT ![p] = Some(PeerSession(p))]
    /\ sockets' = [sockets EXCEPT ![p] = "connecting"]
    /\ PresenceRest
    /\ UNCHANGED <<sessionVars, cursors, relayCursors, toServer, toClient, samples>>

(* io.on('connection'): the relay sends the new socket what it holds *)
RelayConnection(p) ==
    /\ sockets[p] = "connecting"
    /\ sockets' = [sockets EXCEPT ![p] = "connected"]
    /\ toClient' = [toClient EXCEPT
                       ![p] = Append(@, Event("cursors:init", MapValues(relayCursors)))]
    /\ PresenceRest
    /\ UNCHANGED <<sessionVars, session, cursors, relayCursors, toServer, samples>>

(* handleMouseMove over the canvas when the throttle lets the sample pass: *)
(* the effect that installs it returns early without a session.  A socket  *)
(* that is still connecting keeps the event until it is connected.         *)
CursorSample(p, x, y) ==
    /\ samples < MaxSamples
    /\ session[p] /= None
    /\ sockets[p] \in {"connecting", "connected"}
    /\ LET s_ == session[p][1].fields
       IN  toServer' = [toServer EXCEPT ![p] = Append(@,
               Event("cursor:update",
                     CursorData(s_.id, x, y, s_.userName, s_.color)))]
    /\ samples' = samples + 1
    /\ PresenceRest
    /\ UNCHANGED <<sessionVars, session, cursors, relayCursors, sockets, toClient>>

(* socket.on('cursor:update') and socket.on('cursor:remove') of the relay *)
RelayReceive(p) ==
    /\ RelayOpen(p) /\ toServer[p] /= <<>>
    /\ LET ev == Head(toServer[p])
       IN  /\ toServer' = [toServer EXCEPT ![p] = Tail(@)]
           /\ toClient' = Broadcast(p, ev)
           /\ relayCursors' =
                 IF ev.event = "cursor:update"
                 THEN MapSet(relayCursors, [data |-> ev.data, sweeps |-> 0])
                 ELSE MapDelete(relayCursors, ev.data.sessionId)
    /\ PresenceRest
    /\ UNCHANGED <<sessionVars, session, cursors, sockets, samples>>

(* The three socket handlers of the canvas *)
ClientReceive(p) ==
    /\ sockets[p] = "connected" /\ toClient[p] /= <<>>
    /\ LET ev == Head(toClient[p])
       IN  /\ toClient' = [toClient EXCEPT ![p] = Tail(@)]
           /\ cursors' = [cursors EXCEPT ![p] =
                 IF ev.event = "cursors:init" THEN ev.data
                 ELSE IF ev.event = "cursor:update"
                 THEN Append(WithoutCursor(@, ev.data.sessionId), ev.data)
                 ELSE WithoutCursor(@, ev.data.sessionId)]
    /\ PresenceRest
    /\ UNCHANGED <<sessionVars, session, relayCursors, sockets, toServer, samples>>

(* The cleanup of the effect: a removal notice when there is a session,    *)
(* then socket.disconnect().                                               *)
Unmount(p) ==
    /\ sockets[p] = "connected"
    /\ toServer' = [toServer EXCEPT ![p] =
          IF session[p] /= None
          THEN Append(@, Event("cursor:remove", [sessionId |-> session[p][1].fields.id]))
          ELSE @]
    /\ sockets' = [sockets EXCEPT ![p] = "closing"]
    /\ PresenceRest
    /\ UNCHANGED <<sessionVars, session, cursors, relayCursors, toClient, samples>>

(* The page of a peer is closed or loses its network: its socket closes    *)
(* and no cleanup runs.                                                    *)
PeerVanish(p) ==
    /\ sockets[p] = "connected"
    /\ sockets' = [sockets EXCEPT ![p] = "closing"]
    /\ PresenceRest
    /\ UNCHANGED <<sessionVars, session, cursors, relayCursors, toServer, toClient,
                   samples>>

(* socket.on('disconnect') of the relay, which only logs *)
RelayDisconnect(p) ==
    /\ sockets[p] = "closing" /\ toServer[p] = <<>>
    /\ sockets' = [sockets EXCEPT ![p] = "closed"]
    /\ PresenceRest
    /\ UNCHANGED <<sessionVars, session, cursors, relayCursors, toServer, toClient,
                   samples>>

(* The relay's interval: at the n-th sweep after its stamp a cursor is up  *)
(* to n intervals old, and it is deleted once that is more than            *)
(* STALE_AFTER.  Nothing is sent.                                          *)
Sweep ==
    /\ relayCursors /= <<>>
    /\ LET aged == [i \in DOMAIN relayCursors |->
                       [relayCursors[i] EXCEPT !.sweeps = @ + 1]]
       IN  relayCursors' =
               SelectSeq(aged, LAMBDA e : e.sweeps * SWEEP_INTERVAL <= STALE_AFTER)
    /\ PresenceRest
    /\ UNCHANGED <<sessionVars, session, cursors, sockets, toServer, toClient, samples>>

(* Specification of presence: p1 mounts with its storage holding a        *)
(* session, denied, or without a window.  p1 and p2 move their pointers,   *)
(* p1 unmounts, the page of p2 is closed, and p3 watches.                  *)
InitPresence ==
    /\ dbNodes = <<>> /\ dbEdges = <<>>
    /\ nodesDirty = FALSE /\ edgesDirty = FALSE /\ nextId = 0
    /\ convexNodes = None /\ convexEdges = None
    /\ nodes = <<>> /\ edges = <<>>
    /\ pendingOperationsRef = <<>> /\ lastSyncedConvexDataRef = None
    /\ conflictDetected = FALSE /\ conflictWarnings = {}
    /\ inflight = <<>> /\ toastError = None /\ lastLocal = <<>>
    /\ clockPopup = <<>>
    /\ now = 0 /\ dragState = None /\ connectorPlacement = None
    /\ localStorage = Some(Stringify(Session("p1", "Happy Wolf", "#8E44AD")))
    /\ sessionReturned = <<>>
    /\ storageAccess \in {"available", "denied", "no window"}
    /\ session = [p \in Peers |-> None]
    /\ cursors = [p \in Peers |-> <<>>]
    /\ relayCursors = <<>>
    /\ sockets = [p \in Peers |-> "none"]
    /\ toServer = [p \in Peers |-> <<>>]
    /\ toClient = [p \in Peers |-> <<>>]
    /\ samples = 0
    /\ InitRetryIdle

NextPresence ==
    \/ Mount
    \/ \E p \in Peers : PeerMount(p)
    \/ \E p \in Peers : RelayConnection(p)
    \/ \E p \in {"p1", "p2"}, x \in SamplePoints : CursorSample(p, x, 0)
    \/ \E p \in Peers : RelayReceive(p)
    \/ \E p \in Peers : ClientReceive(p)
    \/ Unmount("p1")
    \/ PeerVanish("p2")
    \/ \E p \in Peers : RelayDisconnect(p)
    \/ Sweep

SpecPresence == InitPresence /\ [][NextPresence]_vars

(* Specification of the relay among canvases that all have their storage: *)
(* the page of no peer is closed without its cleanup.                      *)
InitRelay ==
    /\ InitPresence
    /\ storageAccess = "available"

NextRelay ==
    \/ Mount
    \/ \E p \in Peers : PeerMount(p)
    \/ \E p \in Peers : RelayConnection(p)
    \/ \E p \in {"p1", "p2"}, x \in SamplePoints : CursorSample(p, x, 0)
    \/ \E p \in Peers : RelayReceive(p)
    \/ \E p \in Peers : ClientReceive(p)
    \/ Unmount("p1")
    \/ \E p \in Peers : RelayDisconnect(p)
    \/ Sweep

SpecRelay == InitRelay /\ [][NextRelay]_vars

(* The relay and the canvases handle what reaches them, and the relay's    *)
(* interval keeps firing.                                                  *)
SpecPresenceFair ==
    /\ SpecPresence
    /\ \A p \in Peers : /\ WF_vars(RelayConnection(p))
                        /\ WF_vars(RelayReceive(p))
                        /\ WF_vars(ClientReceive(p))
                        /\ WF_vars(RelayDisconnect(p))
    /\ WF_vars(Sweep)

----------------------------------------------------------------------------
(* Specification of a sole writer: this client alone writes node n1 (its   *)
(* text, status and position) and every write of it is applied by the      *)
(* store, while another client writes the text of node n2.                 *)

SoloX == 40 * CoordUnit

InitSolo ==
    /\ dbNodes = <<StoredNode("n1", 0, 0, 200 * CoordUnit, 200 * CoordUnit, <<>>),
                   StoredNode("n2", 0, 0, 200 * CoordUnit, 200 * CoordUnit, <<>>)>>
    /\ dbEdges = <<>>
    /\ nodesDirty = TRUE /\ edgesDirty = TRUE /\ nextId = 2
    /\ InitClient

NextSolo ==
    \/ DeliverNodes
    \/ DeliverEdges
    \/ ConflictTimeout
    \/ \E t \in SyncTexts : LabelChange("n1", t)
    \/ StatusChange("n1")
    \/ NodeDragStop("n1", SoloX, 0)
    \/ FieldUpdateResolved
    \/ StatusUpdateResolved
    \/ PositionUpdateResolved
    \/ \E t \in SyncTexts : OtherClientUpdate("n2", "text", t)

SpecSolo == InitSolo /\ [][NextSolo]_vars

----------------------------------------------------------------------------
(* Specification of two clients adding connectors to node n2: this client  *)
(* by releasing connections from n1 on the body of n2, another client by   *)
(* the same addConnectorAndRedistribute on its own canvas, which has been  *)
(* delivered everything the store holds and whose call is applied at once. *)

OtherConnector == Connector(InputIdAt(8), "input", "left", Percent(1, 2))

(* addConnectorAndRedistribute of the other client and its updateConnectors *)
OtherClientAddConnector(id, newConnector) ==
    /\ DbHas(id)
    /\ ~HasConnector(dbNodes[DbIndex(id)].connectors, newConnector.id)
    /\ OtherClientUpdate(id, "connectors",
           ConnectorsAfterAdd(dbNodes[DbIndex(id)].connectors, newConnector))

NextShare ==
    \/ DeliverNodes
    \/ DeliverEdges
    \/ \E handleType \in {"source", "target"} :
          ConnectEnd("n1", "output-0", handleType, "n2")
    \/ ConnectorsUpdateResolved
    \/ ConnectorsUpdateRejected
    \/ CreateEdgeResolved
    \/ CreateEdgeRejected
    \/ OtherClientAddConnector("n2", OtherConnector)

SpecShare == InitConn /\ [][NextShare]_vars

----------------------------------------------------------------------------
(* Specification of the life of a pending record: two stored nodes; this   *)
(* client renames n1 and drags it, also to the place it already has, the   *)
(* store applies or rejects the calls, and another client may remove n1.   *)

PendingXs == {0, SoloX}

NextPending ==
    \/ DeliverNodes
    \/ DeliverEdges
    \/ ConflictTimeout
    \/ \E t \in SyncTexts : LabelChange("n1", t)
    \/ \E x \in PendingXs : NodeDragStop("n1", x, 0)
    \/ FieldUpdateResolved
    \/ FieldUpdateRejected
    \/ PositionUpdateResolved
    \/ PositionUpdateRejected
    \/ OtherClientRemoveNode("n1")

SpecPending == InitSolo /\ [][NextPending]_vars

----------------------------------------------------------------------------
(* retryWithBackoff (utils/retry.ts).  fn is any function: each call of it *)
(* resolves or rejects with one of two errors.  shouldRetry is given by    *)
(* the set of errors it accepts; onRetry records its arguments.            *)

MaxMaxRetries == 2
DEFAULT_INITIAL_DELAY == 1000
DEFAULT_MAX_DELAY == 10000
DEFAULT_BACKOFF_MULTIPLIER == 2

RetryErrors == {"status 500", "status 404"}

RECURSIVE Pow(_, _)
Pow(b, n) == IF n = 0 THEN 1 ELSE b * Pow(b, n - 1)

(* Math.min(initialDelay * Math.pow(backoffMultiplier, attempt), maxDelay) *)
BackoffDelay(opts, n) ==
    Min2(opts.initialDelay * Pow(opts.backoffMultiplier, n), opts.maxDelay)

(* The loop runs fewer times. *)
LoopContinues_Strict(n, opts) == n < opts.maxRetries

(* attempt <= opts.maxRetries *)
LoopContinues(n, opts) == n <= opts.maxRetries

(* The retries are counted from zero. *)
RetryNumber_FromZero(n) == n

(* the second argument of onRetry: attempt + 1 *)
RetryNumber(n) == n + 1

Resolved(value) == Some([state |-> "resolved", value |-> value])
Rejected(error) == Some([state |-> "rejected", value |-> error])

(* lastError: undefined until a call of fn has failed *)
lastError == IF fnCalls = <<>> THEN Undefined ELSE fnCalls[Len(fnCalls)]

RetryRest ==
    /\ Silent
    /\ UNCHANGED <<storeVars, queryVars, localVars, trackVars, callVars, clockPopup,
                   uiVars, sessionVars, presenceVars, retryOpts>>

(* The loop test with the counter at n: the next call of fn, or the throw  *)
(* after the loop.                                                         *)
EnterLoop(n) ==
    /\ attempt' = n
    /\ IF LoopContinues(n, retryOpts)
       THEN /\ retryPc' = "calling"
            /\ UNCHANGED settled
       ELSE /\ retryPc' = "rejected"
            /\ settled' = Rejected(lastError)

(* retryWithBackoff(fn, options) is called *)
RetryCall ==
    /\ retryPc = "idle"
    /\ EnterLoop(0)
    /\ RetryRest
    /\ UNCHANGED <<fnCalls, onRetryCalls, delays>>

(* `return await fn()` with fn resolving *)
FnResolves ==
    /\ retryPc = "calling"
    /\ fnCalls' = Append(fnCalls, "success")
    /\ retryPc' = "resolved"
    /\ settled' = Resolved("success")
    /\ RetryRest
    /\ UNCHANGED <<attempt, onRetryCalls, delays>>

(* fn rejects with error: the catch block up to the wait *)
FnRejects(error) ==
    /\ retryPc = "calling"
    /\ fnCalls' = Append(fnCalls, error)
    /\ IF error \notin retryOpts.shouldRetry \/ attempt = retryOpts.maxRetries
       THEN /\ retryPc' = "rejected"
            /\ settled' = Rejected(error)
            /\ UNCHANGED <<onRetryCalls, delays>>
       ELSE /\ onRetryCalls' = Append(onRetryCalls, <<error, RetryNumber(attempt)>>)
            /\ delays' = Append(delays, BackoffDelay(retryOpts, attempt))
            /\ retryPc' = "waiting"
            /\ UNCHANGED settled
    /\ RetryRest
    /\ UNCHANGED attempt

(* The timer of the wait fires: attempt++ and the loop test *)
WaitOver ==
    /\ retryPc = "waiting"
    /\ EnterLoop(attempt + 1)
    /\ RetryRest
    /\ UNCHANGED <<fnCalls, onRetryCalls, delays>>

(* Specification of retryWithBackoff alone, over its options *)
RetryOptionSets ==
    [maxRetries : -1 .. MaxMaxRetries,
     initialDelay : {10, DEFAULT_INITIAL_DELAY},
     maxDelay : {25, DEFAULT_MAX_DELAY},
     backoffMultiplier : {DEFAULT_BACKOFF_MULTIPLIER},
     shouldRetry : SUBSET RetryErrors]

InitRetry ==
    /\ dbNodes = <<>> /\ dbEdges = <<>>
    /\ nodesDirty = FALSE /\ edgesDirty = FALSE /\ nextId = 0
    /\ convexNodes = None /\ convexEdges = None
    /\ nodes = <<>> /\ edges = <<>>
    /\ pendingOperationsRef = <<>> /\ lastSyncedConvexDataRef = None
    /\ conflictDetected = FALSE /\ conflictWarnings = {}
    /\ inflight = <<>> /\ toastError = None /\ lastLocal = <<>>
    /\ clockPopup = <<>>
    /\ now = 0 /\ dragState = None /\ connectorPlacement = None
    /\ localStorage = None /\ sessionReturned = <<>>
    /\ InitPresenceIdle
    /\ retryOpts \in RetryOptionSets
    /\ retryPc = "idle" /\ attempt = 0
    /\ fnCalls = <<>> /\ onRetryCalls = <<>> /\ delays = <<>> /\ settled = None

NextRetry ==
    \/ RetryCall
    \/ FnResolves
    \/ \E error \in RetryErrors : FnRejects(error)
    \/ WaitOver

SpecRetry == InitRetry /\ [][NextRetry]_vars

----------------------------------------------------------------------------
(* Reference definitions of the calculator's contract, written from the    *)
(* statement of the dependency time and not from the code.                 *)

SnapNodes == IF convexNodes = None THEN <<>> ELSE convexNodes[1]
SnapEdges == IF convexEdges = None THEN <<>> ELSE convexEdges[1]
SnapIds == {SnapNodes[i]._id : i \in 1..Len(SnapNodes)}
SnapNode(id) == SnapNodes[FindNode(SnapNodes, id)]
SnapArcs == {<<SnapEdges[i].source, SnapEdges[i].target>> : i \in 1..Len(SnapEdges)}

RefIncomplete(n) ==
    {d \in SnapIds : <<d, n>> \in SnapArcs /\ SnapNode(d).status /= "complete"}

RECURSIVE RefReach(_, _)
(* the nodes reachable from the set S by one or more arcs, within k steps *)
RefReach(S, k) ==
    LET next == {m \in SnapIds : \E s \in S : <<s, m>> \in SnapArcs} IN
    IF k = 0 THEN {} ELSE next \cup RefReach(next, k - 1)

RefAcyclic == \A n \in SnapIds : n \notin RefReach({n}, Cardinality(SnapIds))

RefSetMax(S) == IF S = {} THEN 0 ELSE CHOOSE m \in S : \A k \in S : k <= m

(* a node's own estimate, in minutes *)
RefOwnMinutes(n) ==
    LET t == IF SnapNode(n).timeEstimate = None THEN 0 ELSE SnapNode(n).timeEstimate[1]
        u == SnapNode(n).timeUnit
    IN  IF u = "minutes" THEN t
        ELSE IF u = "days" THEN t * 1440
        ELSE IF u = "weeks" THEN t * 10080
        ELSE t * 60

RECURSIVE RefTimeToComplete(_)
RefTimeToComplete(n) ==
    RefOwnMinutes(n) + RefSetMax({RefTimeToComplete(d) : d \in RefIncomplete(n)})

(* the longest dependency time into n, in minutes *)
RefUntilReadyMinutes(n) == RefSetMax({RefTimeToComplete(d) : d \in RefIncomplete(n)})

(* minutes per unit of the target's display unit *)
RefUnitMinutes(n) ==
    LET u == SnapNode(n).timeUnit IN
    IF u = "minutes" THEN 1 ELSE IF u = "days" THEN 1440
    ELSE IF u = "weeks" THEN 10080 ELSE 60

(* t tenths is m/per rounded to one decimal place, halves rounded up *)
RefIsRounded(t, m, per) ==
    /\ 2 * t * per <= 20 * m + per
    /\ 20 * m + per < 2 * (t + 1) * per

(* C9, as stated: on an acyclic graph the time-until-ready of a           *)
(* non-complete target is the maximum over its incomplete dependencies of  *)
(* timeToComplete, in hours (tenths / 10 = minutes / 60).                  *)
C9_AsStated ==
    \A n \in DOMAIN clockPopup :
        (RefAcyclic /\ SnapNode(n).status /= "complete")
            => clockPopup[n] * 6 = RefUntilReadyMinutes(n)

(* C9, amended: on an acyclic graph the time-until-ready of a              *)
(* non-complete target is that maximum converted from hours to the         *)
(* target's own time unit and rounded to one decimal place; when the       *)
(* target's unit is hours the chain A->B->C of 2 hours each gives 4.0 and   *)
(* the fan-in of A (1h) and B (3h) gives 3.0.                              *)
C9_UntilReadyIsMaxInTargetUnit ==
    \A n \in DOMAIN clockPopup :
        (RefAcyclic /\ SnapNode(n).status /= "complete")
            => RefIsRounded(clockPopup[n], RefUntilReadyMinutes(n), RefUnitMinutes(n))

IsTwoHours(n) ==
    /\ SnapNode(n).status = "not ready"
    /\ SnapNode(n).timeEstimate = Some(2) /\ SnapNode(n).timeUnit = "hours"

(* the chain A->B->C, 2 hours each, with C's popup showing 4.0 *)
C9_Witness ==
    /\ convexNodes /= None /\ convexEdges /= None
    /\ SnapArcs = {<<"A", "B">>, <<"B", "C">>}
    /\ \A n \in SnapIds : IsTwoHours(n)
    /\ "C" \in DOMAIN clockPopup /\ clockPopup["C"] = 40

(* C10: time-until-ready is 0 for a complete node and for a node with no   *)
(* incoming edge from a node that is not complete.                         *)
C10_ZeroWhenCompleteOrNoDependency ==
    \A n \in DOMAIN clockPopup :
        (SnapNode(n).status = "complete" \/ RefIncomplete(n) = {})
            => clockPopup[n] = 0

(* a complete node with an incomplete dependency of 3 hours shows 0, and   *)
(* so does an incomplete node whose only dependency is complete            *)
C10_Witness ==
    /\ convexNodes /= None /\ convexEdges /= None
    /\ SnapArcs = {<<"A", "B">>, <<"B", "C">>}
    /\ SnapNode("A").status = "not ready" /\ SnapNode("A").timeEstimate = Some(3)
    /\ SnapNode("A").timeUnit = "hours"
    /\ SnapNode("B").status = "complete" /\ SnapNode("C").status = "not ready"
    /\ DOMAIN clockPopup = {"B", "C"}
    /\ clockPopup["B"] = 0 /\ clockPopup["C"] = 0

RECURSIVE RefCutTimeToComplete(_, _)
(* timeToComplete of d below the ancestors anc, a node that is its own     *)
(* ancestor counting 0                                                     *)
RefCutTimeToComplete(d, anc) ==
    IF d \in anc THEN 0
    ELSE RefOwnMinutes(d)
         + RefSetMax({RefCutTimeToComplete(e, anc \cup {d}) : e \in RefIncomplete(d)})

(* the longest dependency time into n, in minutes, n being the first       *)
(* ancestor                                                                *)
RefCutUntilReadyMinutes(n) ==
    RefSetMax({RefCutTimeToComplete(d, {n}) : d \in RefIncomplete(n)})

(* C11: on every graph, cyclic or not, the time-until-ready shown is a     *)
(* finite number, and a node that reappears in its own ancestry (the       *)
(* target included) contributes 0 to it: the value is the longest          *)
(* dependency time in which every repeated node counts 0.                  *)
C11_RepeatedNodeContributesZero ==
    \A n \in DOMAIN clockPopup :
        /\ clockPopup[n] \in Nat
        /\ SnapNode(n).status /= "complete"
              => RefIsRounded(clockPopup[n], RefCutUntilReadyMinutes(n), RefUnitMinutes(n))

----------------------------------------------------------------------------
(* Claims about the sync engine.                                           *)

(* the step delivers a node snapshot *)
NodesDelivered == nodesDirty /\ ~nodesDirty'

(* ... and the sync effect processes it: its hash differs from the hash    *)
(* of the last processed snapshot                                          *)
NodesProcessed ==
    /\ NodesDelivered
    /\ (lastSyncedConvexDataRef = None
        \/ lastSyncedConvexDataRef[1] /= ConvexDataHash(convexNodes'[1]))

DeliveredIds == {convexNodes'[1][i]._id : i \in 1..Len(convexNodes'[1])}

(* the step is a handler of node n that begins a store call *)
Begins(n) ==
    /\ Len(inflight') = Len(inflight) + 1
    /\ inflight'[Len(inflight')].id = n

BegunType == FieldOf(inflight'[Len(inflight')].op)

C3_ConflictIffBeyondTolerance ==
    [][\A n \in DOMAIN pendingOperationsRef :
          (NodesProcessed /\ n \in DeliveredIds) =>
             LET op == pendingOperationsRef[n]
                 s  == convexNodes'[1][FindNode(convexNodes'[1], n)]
                 dx == IF s.x >= op.data[1] THEN s.x - op.data[1] ELSE op.data[1] - s.x
                 dy == IF s.y >= op.data[2] THEN s.y - op.data[2] ELSE op.data[2] - s.y
             IN  (n \in conflictWarnings') <=>
                    IF op.type = "position"
                    THEN dx > 1 * CoordUnit \/ dy > 1 * CoordUnit
                    ELSE s[op.type] /= op.data
      ]_vars

(* a snapshot has been reconciled whose text, description, status,         *)
(* timeEstimate and timeUnit are the values every non-position record      *)
(* expects and whose position is (11.5, 10): the conflict flagged is that  *)
(* of the pending position record (10, 10)                                 *)
C3_Witness ==
    /\ ~nodesDirty
    /\ conflictWarnings = {"n1"}
    /\ nodes[1].x = 46 /\ nodes[1].y = 40
    /\ nodes[1].label = "a" /\ nodes[1].description = "d"
    /\ nodes[1].status = "can start"
    /\ nodes[1].timeEstimate = Some(2) /\ nodes[1].timeUnit = "days"

C5_AsStated ==
    [][\A n \in DOMAIN pendingOperationsRef :
          (Begins(n) /\ pendingOperationsRef[n].type /= BegunType)
              => \E k \in DOMAIN pendingOperationsRef' :
                    pendingOperationsRef'[k] = pendingOperationsRef[n]]_vars

(* C5, amended: the tracker holds at most one pending record per node: a   *)
(* begin for node n replaces the earlier pending record of n whatever its  *)
(* type, and leaves the records of the other nodes alone.                  *)
C5_OneRecordPerNode ==
    [][\A n \in EditableIds :
          Begins(n) =>
             /\ n \in DOMAIN pendingOperationsRef'
             /\ pendingOperationsRef'[n] =
                   [type |-> BegunType, data |-> inflight'[Len(inflight')].arg]
             /\ \A m \in DOMAIN pendingOperationsRef \ {n} :
                   m \in DOMAIN pendingOperationsRef'
                   /\ pendingOperationsRef'[m] = pendingOperationsRef[m]]_vars

(* a text write and then a status write of n1 are in flight, and the only  *)
(* record tracked for n1 is the status one                                 *)
C5_Witness ==
    /\ Len(inflight) = 2
    /\ inflight[1].op = "updateText" /\ inflight[1].id = "n1"
    /\ inflight[2].op = "updateStatus" /\ inflight[2].id = "n1"
    /\ DOMAIN pendingOperationsRef = {"n1"}
    /\ pendingOperationsRef["n1"].type = "status"

LocalField(n, field) == IF field = "position" THEN <<n.x, n.y>> ELSE n[field]

(* C6: between two snapshots the local value of a field is the value its   *)
(* most recent local mutation set, whatever becomes of earlier mutations.  *)
C6_LastLocalMutationWins ==
    \A id \in DOMAIN lastLocal :
        \A i \in 1..Len(nodes) :
            nodes[i].id = id => LocalField(nodes[i], lastLocal[id][1]) = lastLocal[id][2]

(* C2: with no call in flight and the latest snapshots delivered, the      *)
(* local nodes and edges are the authoritative ones.                       *)
C2_LocalEqualsAuthoritative ==
    (inflight = <<>> /\ ~nodesDirty /\ ~edgesDirty /\ convexNodes /= None
        /\ convexEdges /= None)
    => /\ nodes = SyncedNodes(dbNodes, <<>>)
       /\ edges = reactFlowEdges(Some(dbEdges), Some(dbNodes))

(* the step is a connector operation: it calls updateConnectors *)
BeginsConnectorOp ==
    /\ Len(inflight') = Len(inflight) + 1
    /\ inflight'[Len(inflight')].op = "updateConnectors"

(* C7: after addConnectorAndRedistribute or removeConnectorAndRedistribute *)
(* the connectors of the node that share the type and side of the          *)
(* connector added or removed have, in array order, the positions          *)
(* 100 * (i + 1) / (n + 1), i = 0 .. n - 1, n their number; what is sent   *)
(* to the store is what the local node holds.                              *)
C7_GroupEvenlySpaced ==
    [][BeginsConnectorOp =>
         LET call == inflight'[Len(inflight')]
             group == SelectSeq(call.arg,
                          LAMBDA c : c.type = call.orig.connector.type
                                     /\ c.side = call.orig.connector.side)
             local == SelectSeq(nodes', LAMBDA m : m.id = call.id)
         IN  /\ \A k \in 1..Len(group) :
                   group[k].position[1] * (Len(group) + 1) = k * group[k].position[2]
             /\ Len(local) = 1 /\ local[1].connectors = call.arg
      ]_vars

(* an input has been added to n2 beside its created input: the inputs on   *)
(* the left side stand at 1/3 and 2/3, and updateConnectors is in flight   *)
C7_Witness ==
    /\ inflight /= <<>>
    /\ Head(inflight).op = "updateConnectors"
    /\ Head(inflight).orig.kind = "add"
    /\ \E i \in 1..Len(nodes) :
          /\ nodes[i].id = "n2"
          /\ LET group == SameTypeAndSide(nodes[i].connectors, "input", "left")
             IN  /\ Len(group) = 2
                 /\ group[1].position = <<1, 3>> /\ group[2].position = <<2, 3>>

(* the step sends a geometry to the store: createNode or updatePosition *)
BeginsGeometryCall ==
    /\ Len(inflight') = Len(inflight) + 1
    /\ inflight'[Len(inflight')].op \in {"createNode", "updatePosition"}

(* C8: the geometry sent to the store for a node created by the gesture or *)
(* moved by a drag has MIN_X <= x, x + width <= MAX_X, MIN_Y <= y and      *)
(* y + height <= MAX_Y.                                                    *)
C8_SentGeometryWithinCanvas ==
    [][BeginsGeometryCall =>
         LET call == inflight'[Len(inflight')]
             local == SelectSeq(nodes', LAMBDA m : m.id = call.id)[1]
             x == IF call.op = "createNode" THEN call.arg.x ELSE call.arg[1]
             y == IF call.op = "createNode" THEN call.arg.y ELSE call.arg[2]
             width == IF call.op = "createNode" THEN call.arg.width ELSE local.width
             height == IF call.op = "createNode" THEN call.arg.height ELSE local.height
         IN  /\ CANVAS_MIN_X * CoordUnit <= x /\ x + width <= CANVAS_MAX_X * CoordUnit
             /\ CANVAS_MIN_Y * CoordUnit <= y /\ y + height <= CANVAS_MAX_Y * CoordUnit
      ]_vars

(* the connector ids of the stored node id: {} when the node is gone *)
DbConnectorIds(id) ==
    IF DbHas(id)
    THEN {dbNodes[DbIndex(id)].connectors[i].id :
             i \in 1..Len(dbNodes[DbIndex(id)].connectors)}
    ELSE {}

(* C12: in the store, the sourceHandle of every edge, when present, is the *)
(* id of a connector of the edge's source node, and its targetHandle, when *)
(* present, the id of a connector of its target node.                      *)
C12_EdgeHandlesExist ==
    \A i \in 1..Len(dbEdges) :
        /\ dbEdges[i].sourceHandle /= Undefined
              => dbEdges[i].sourceHandle \in DbConnectorIds(dbEdges[i].source)
        /\ dbEdges[i].targetHandle /= Undefined
              => dbEdges[i].targetHandle \in DbConnectorIds(dbEdges[i].target)

(* C13: in the store, the source and the target of every edge are nodes   *)
(* of the nodes table: no mutation creates an edge at a missing node, and  *)
(* no mutation removes a node and leaves an edge at it.                    *)
C13_EdgeEndpointsExist ==
    \A i \in 1..Len(dbEdges) : DbHas(dbEdges[i].source) /\ DbHas(dbEdges[i].target)

(* n1 has been removed after an edge at it was created: of the two edges   *)
(* created since n3, only the edge n2 -> n3 is left                        *)
C13_Witness ==
    /\ ~DbHas("n1") /\ DbHas("n2") /\ DbHas("n3")
    /\ nextId = 5
    /\ Len(dbEdges) = 1
    /\ dbEdges[1]._id = "e5" /\ dbEdges[1].source = "n2" /\ dbEdges[1].target = "n3"

(* the step is the end of a drag: it calls updatePosition *)
BeginsPositionCall ==
    /\ Len(inflight') = Len(inflight) + 1
    /\ inflight'[Len(inflight')].op = "updatePosition"

(* C14: the position onNodeDragStop keeps for the rollback is the position *)
(* the node had before the drag; when updatePosition fails, the local node *)
(* is put back at the position kept, the pending record of the node is     *)
(* removed and a toast is raised.                                          *)
C14_RestoresPositionBeforeDrag ==
    [][/\ BeginsPositionCall =>
             LET call == inflight'[Len(inflight')]
             IN  call.orig = <<LocalNode(call.id).x, LocalNode(call.id).y>>
       /\ PositionUpdateRejected =>
             LET call == Head(inflight)
             IN  /\ \A i \in 1..Len(nodes') :
                       nodes'[i].id = call.id
                          => <<nodes'[i].x, nodes'[i].y>> = call.orig
                 /\ call.id \notin DOMAIN pendingOperationsRef'
                 /\ toastError' /= None
      ]_vars

(* C15: when the updateConnectors call of an added or of a removed         *)
(* connector fails, a toast is raised and the local node has the           *)
(* connectors it had before: after a removal the array kept as             *)
(* originalConnectors, after an addition an array without the connector    *)
(* added.                                                                  *)
C15_ConnectorsRolledBack ==
    [][ConnectorsUpdateRejected =>
         LET call == Head(inflight)
         IN  /\ toastError' /= None
             /\ \A i \in 1..Len(nodes') :
                   nodes'[i].id = call.id =>
                      IF call.orig.kind = "remove"
                      THEN nodes'[i].connectors = call.orig.original
                      ELSE ~HasConnector(nodes'[i].connectors, call.orig.connector.id)
      ]_vars

(* the step is the return of the oldest call, a createNode *)
SettlesCreateNode ==
    /\ inflight /= <<>> /\ Head(inflight).op = "createNode"
    /\ inflight' = Tail(inflight)

(* C16: when the createNode call of a finished gesture returns, with the   *)
(* node stored or with a failure, the local nodes hold no node with the    *)
(* gesture's temporary id; when it failed (no node was stored) a toast is  *)
(* raised.                                                                 *)
C16_TemporaryNodeRemoved ==
    [][SettlesCreateNode =>
         /\ \A i \in 1..Len(nodes') : nodes'[i].id /= Head(inflight).id
         /\ dbNodes' = dbNodes => toastError' /= None
      ]_vars

(* a createNode call has failed: the toast is up, and the local nodes are  *)
(* the stored node and the anchors, the temporary node gone                *)
C16_Witness ==
    /\ now = 1 /\ inflight = <<>>
    /\ toastError = Some("Failed to create node. Please try again.")
    /\ Len(nodes) = 5
    /\ \A i \in 1..Len(nodes) : ~IsTempId(nodes[i].id)

(* the step calls createEdge *)
BeginsCreateEdgeCall ==
    /\ inflight' /= <<>>
    /\ inflight'[Len(inflight')].op = "createEdge"
    /\ inflight'[Len(inflight')] \notin SeqRange(inflight)

(* the step is the failure of the oldest call, a createEdge *)
FailsCreateEdge ==
    /\ inflight /= <<>> /\ Head(inflight).op = "createEdge"
    /\ inflight' = Tail(inflight)
    /\ dbEdges' = dbEdges

(* C17: on every path that creates an edge, the step that calls createEdge *)
(* leaves the edge among the local edges, and the step in which createEdge *)
(* fails leaves no local edge with the id the edge was inserted under and  *)
(* raises a toast.                                                         *)
C17_OptimisticEdgeRolledBack ==
    [][/\ BeginsCreateEdgeCall =>
             LET call == inflight'[Len(inflight')]
             IN  \E i \in 1..Len(edges') :
                    /\ edges'[i].source = call.arg.source
                    /\ edges'[i].target = call.arg.target
                    /\ edges'[i].sourceHandle = call.arg.sourceHandle
                    /\ edges'[i].targetHandle = call.arg.targetHandle
       /\ FailsCreateEdge =>
             /\ \A i \in 1..Len(edges') : edges'[i].id /= Head(inflight).id
             /\ toastError' /= None
      ]_vars

(* C18: onNodesDelete calls removeNode only once removeEdgesByNode for the  *)
(* node has returned; and when either call fails a toast is raised and the *)
(* local nodes hold the deleted node again, exactly once.                  *)
BeginsRemoveNode ==
    /\ Len(inflight') > 0
    /\ inflight'[Len(inflight')].op = "removeNode"
    /\ \/ Len(inflight') > Len(inflight)
       \/ inflight'[Len(inflight')] /= inflight[Len(inflight)]

FailsNodesDelete ==
    \/ RemoveEdgesByNodeRejected
    \/ RemoveNodeRejected
    \/ RemoveNodeMissing

C18_NodeDeletionOrderedAndRolledBack ==
    [][/\ BeginsRemoveNode =>
            /\ Head(inflight).op = "removeEdgesByNode"
            /\ inflight' = Append(Tail(inflight),
                                  Call("removeNode", Head(inflight).id, None,
                                       Head(inflight).orig))
       /\ FailsNodesDelete =>
            /\ toastError' /= None
            /\ Cardinality({i \in 1..Len(nodes') : nodes'[i].id = Head(inflight).id}) = 1
      ]_vars

(* C19: no two removeEdge calls for the same edge id are in flight at the  *)
(* same time.                                                              *)
C19_OneRemoveEdgeInFlightPerEdge ==
    \A i, j \in 1..Len(inflight) :
        (i < j /\ inflight[i].op = "removeEdge" /\ inflight[j].op = "removeEdge")
            => inflight[i].id /= inflight[j].id

(* C20: a deletion that finds the node or the edge already gone from the   *)
(* store counts as done: no toast is raised and the local state does not   *)
(* hold the node or the edge afterwards.                                   *)
C20_DeleteOfMissingSucceeds ==
    [][/\ RemoveNodeMissing =>
            /\ toastError' = None
            /\ \A i \in 1..Len(nodes') : nodes'[i].id /= Head(inflight).id
       /\ (RemoveEdgeResolved /\ ~DbHasEdge(Head(inflight).id)) =>
            /\ toastError' = None
            /\ \A i \in 1..Len(edges') : edges'[i].id /= Head(inflight).id
      ]_vars

(* C21: when the removal of connector c of node n has been stored, every   *)
(* local edge with (source = n and sourceHandle = c) or (target = n and    *)
(* targetHandle = c) leaves the local edges, the other edges stay, and one *)
(* removeEdge call is issued for each edge that left.                      *)
ConnectorRemovalStored ==
    /\ ConnectorsUpdateResolved
    /\ Head(inflight).orig.kind = "remove"

C21_ConnectorEdgesRemoved ==
    [][ConnectorRemovalStored =>
        LET n == Head(inflight).id
            c == Head(inflight).orig.connector.id
            atHandle(e) == \/ e.source = n /\ e.sourceHandle = c
                           \/ e.target = n /\ e.targetHandle = c
            gone == SelectSeq(edges, atHandle)
            issued == SubSeq(inflight', Len(inflight), Len(inflight'))
        IN  /\ edges' = SelectSeq(edges, LAMBDA e : ~atHandle(e))
            /\ Len(issued) = Len(gone)
            /\ \A k \in 1..Len(gone) :
                   issued[k].op = "removeEdge" /\ issued[k].id = gone[k].id
      ]_vars

(* a removeEdge call of a connector removal is in flight for stored edge   *)
(* e3, which the local edges no longer hold, and the connector is gone     *)
(* from the local node                                                     *)
C21_Witness ==
    /\ inflight /= <<>>
    /\ Head(inflight).op = "removeEdge"
    /\ Head(inflight).orig.by = "removeConnector"
    /\ \E i \in 1..Len(dbEdges) : dbEdges[i]._id = Head(inflight).id
    /\ \A i \in 1..Len(edges) : edges[i].id /= Head(inflight).id
    /\ \E i \in 1..Len(nodes) : nodes[i].id = "n2"
    /\ ~HasConnector(LocalNode("n2").connectors, "input-0")

(* C22: a connection dragged from a handle of n1 and released on the body  *)
(* of n2 takes on n2 a connector of the complementary type that no local   *)
(* edge has as a handle, and adds a connector of that type only when there *)
(* is none; and the edge stored for it is the only stored edge at that     *)
(* handle of n2.                                                           *)
AtHandle(e, nodeId, connectorId) ==
    \/ e.source = nodeId /\ e.sourceHandle = connectorId
    \/ e.target = nodeId /\ e.targetHandle = connectorId

FreeConnectors(nodeId, type) ==
    {c \in SeqRange(LocalNode(nodeId).connectors) :
        /\ c.type = type
        /\ \A i \in 1..Len(edges) : ~AtHandle(edges[i], nodeId, c.id)}

AssignedHandle(params) ==
    IF params.target = "n2" THEN params.targetHandle ELSE params.sourceHandle

C22_AssignedHandleIsFree ==
    [][/\ \A handleId \in AssignHandleIds, handleType \in {"source", "target"} :
            ConnectEnd("n1", handleId, handleType, "n2") =>
                LET type == IF handleType = "source" THEN "input" ELSE "output"
                    call == inflight'[Len(inflight')]
                IN  IF FreeConnectors("n2", type) /= {}
                    THEN /\ call.op = "createEdge"
                         /\ AssignedHandle(call.arg)
                                \in {c.id : c \in FreeConnectors("n2", type)}
                         /\ nodes' = nodes
                    ELSE /\ call.op = "updateConnectors"
                         /\ call.orig.connector.type = type
                         /\ ~HasConnector(LocalNode("n2").connectors, call.orig.connector.id)
       /\ CreateEdgeResolved =>
            \A i \in 1..Len(dbEdges) :
                ~AtHandle([source |-> dbEdges[i].source, target |-> dbEdges[i].target,
                           sourceHandle |-> dbEdges[i].sourceHandle,
                           targetHandle |-> dbEdges[i].targetHandle],
                          "n2", AssignedHandle(Head(inflight).arg))
      ]_vars

(* C23: a pointer-up while the rectangle is drawn ends the drawing; with a *)
(* rectangle at least MIN_NODE_SIZE wide and high the connector placement  *)
(* starts, holding the rectangle and the point of release; otherwise the   *)
(* gesture is dropped; in neither case is a node added or a call issued.   *)
C23_SizingPointerUp ==
    [][\A p \in SizingPoints :
        MouseUpSizing(p[1], p[2]) =>
            LET d == dragState[1]
                width == IF d.currentX >= d.startX THEN d.currentX - d.startX
                                                   ELSE d.startX - d.currentX
                height == IF d.currentY >= d.startY THEN d.currentY - d.startY
                                                    ELSE d.startY - d.currentY
            IN  /\ dragState' = None
                /\ nodes' = nodes /\ inflight' = inflight /\ dbNodes' = dbNodes
                /\ IF width >= 50 /\ height >= 50
                   THEN /\ connectorPlacement' /= None
                        /\ connectorPlacement'[1].nodeWidth = width
                        /\ connectorPlacement'[1].nodeHeight = height
                        /\ connectorPlacement'[1].nodeX
                              = (IF d.startX <= d.currentX THEN d.startX ELSE d.currentX)
                        /\ connectorPlacement'[1].nodeY
                              = (IF d.startY <= d.currentY THEN d.startY ELSE d.currentY)
                        /\ connectorPlacement'[1].releaseX = p[1]
                        /\ connectorPlacement'[1].releaseY = p[2]
                   ELSE connectorPlacement' = None
      ]_vars

(* the placement has started for a rectangle of exactly the minimum size,  *)
(* drawn from its bottom right corner and released at another point        *)
C23_Witness ==
    /\ dragState = None
    /\ connectorPlacement /= None
    /\ connectorPlacement[1].nodeWidth = MIN_NODE_SIZE
    /\ connectorPlacement[1].nodeHeight = MIN_NODE_SIZE
    /\ connectorPlacement[1].nodeX = 0 /\ connectorPlacement[1].nodeY = 0
    /\ connectorPlacement[1].releaseX = 118
    /\ connectorPlacement[1].currentX = 118
    /\ inflight = <<>>

(* C24: a pointer-up in the connector placement phase adds one temporary   *)
(* node and issues one createNode call, and it is not taken while a        *)
(* createNode call of the gesture is still in flight; when the call        *)
(* returns, with success or failure, no placement is left.                 *)
CreateNodeCalls(calls) == {i \in 1..Len(calls) : calls[i].op = "createNode"}

C24_FinalizedOnce ==
    [][/\ \A viewport \in PlaceViewports :
            FinishPlacement(viewport, MaxFinishes) =>
                /\ Len(nodes') = Len(nodes) + 1
                /\ IsTempId(nodes'[Len(nodes')].id)
                /\ SubSeq(nodes', 1, Len(nodes)) = nodes
                /\ Len(inflight') = Len(inflight) + 1
                /\ CreateNodeCalls(inflight) = {}
       /\ (CreateNodeResolved \/ CreateNodeRejected) =>
                connectorPlacement' = None
      ]_vars

(* C25: the node the placement phase ends with has                         *)
(* clamp(floor(distance(release, current) / 20), 1, 8) input connectors,   *)
(* the i-th of count (from 1) on the left side at i / (count + 1) of the   *)
(* side, followed by one output connector at the middle of the right side. *)
PlacedCount(placement) ==
    LET dx == placement.currentX - placement.releaseX
        dy == placement.currentY - placement.releaseY
        floors == {k \in 0..20 : 400 * k * k <= dx * dx + dy * dy}
        floor == CHOOSE k \in floors : \A j \in floors : j <= k
    IN  IF floor < 1 THEN 1 ELSE IF floor > 8 THEN 8 ELSE floor

IsPlacedConnectors(connectors, count) ==
    /\ Len(connectors) = count + 1
    /\ \A i \in 1..count :
          /\ connectors[i].type = "input" /\ connectors[i].side = "left"
          /\ connectors[i].position[1] * (count + 1) = i * connectors[i].position[2]
    /\ connectors[count + 1].type = "output" /\ connectors[count + 1].side = "right"
    /\ connectors[count + 1].position[1] * 2 = connectors[count + 1].position[2]
    /\ \A i, j \in 1..(count + 1) : i /= j => connectors[i].id /= connectors[j].id

C25_PlacedConnectors ==
    [][MouseUpPlacing(CreateViewport) =>
        LET count == PlacedCount(connectorPlacement[1])
        IN  /\ IsPlacedConnectors(inflight'[Len(inflight')].arg.connectors, count)
            /\ IsPlacedConnectors(nodes'[Len(nodes')].connectors, count)
      ]_vars

(* a placement released at (50, 50) and finished with the pointer at       *)
(* (118, 50), distance 68: createNode is in flight with inputs at 1/4, 1/2 *)
(* and 3/4 and the output at 1/2                                           *)
C25_Witness ==
    /\ connectorPlacement /= None
    /\ connectorPlacement[1].releaseX = 50 /\ connectorPlacement[1].releaseY = 50
    /\ connectorPlacement[1].currentX = 118 /\ connectorPlacement[1].currentY = 50
    /\ Len(inflight) = 1 /\ inflight[1].op = "createNode"
    /\ [i \in 1..4 |-> inflight[1].arg.connectors[i].position]
          = <<Percent(25, 100), Percent(50, 100), Percent(75, 100), Percent(50, 100)>>
    /\ Len(inflight[1].arg.connectors) = 4

(* C26: every createNode call of the gesture passes a width and a height   *)
(* of at least MIN_NODE_SIZE, whatever the zoom of the viewport.           *)
C26_CreatedSizeAtLeastMinimum ==
    \A i \in CreateNodeCalls(inflight) :
        /\ inflight[i].arg.width >= MIN_NODE_SIZE * CoordUnit
        /\ inflight[i].arg.height >= MIN_NODE_SIZE * CoordUnit

(* C27: when the nodes snapshot delivered equals the last delivered one in *)
(* _id, x, y, text, description, status, timeEstimate, timeUnit and        *)
(* connectors of every node, the sync effect leaves the pending map, the   *)
(* conflict signal and the local nodes as they are and warns of nothing.   *)
SameHashedFields(a, b) ==
    /\ Len(a) = Len(b)
    /\ \A i \in 1..Len(a) :
          /\ a[i]._id = b[i]._id /\ a[i].x = b[i].x /\ a[i].y = b[i].y
          /\ a[i].text = b[i].text /\ a[i].description = b[i].description
          /\ a[i].status = b[i].status /\ a[i].timeEstimate = b[i].timeEstimate
          /\ a[i].timeUnit = b[i].timeUnit /\ a[i].connectors = b[i].connectors

C27_UnchangedSnapshotSkipped ==
    [][(DeliverNodes /\ convexNodes /= None /\ SameHashedFields(convexNodes[1], dbNodes)) =>
            /\ pendingOperationsRef' = pendingOperationsRef
            /\ conflictDetected' = conflictDetected
            /\ conflictWarnings' = {}
            /\ nodes' = nodes
            /\ lastSyncedConvexDataRef' = lastSyncedConvexDataRef
      ]_vars

(* every call has returned and the latest snapshot has been delivered, yet *)
(* a pending record is left: its call wrote the store back to the fields   *)
(* of the snapshot processed before, and the delivery was skipped          *)
C27_Witness ==
    /\ inflight = <<>>
    /\ ~nodesDirty
    /\ convexNodes = Some(dbNodes)
    /\ pendingOperationsRef /= <<>>

(* C28: a snapshot whose processing warns of a conflict leaves the         *)
(* conflict signal raised, and a raised signal is always cleared again by  *)
(* its timer.                                                              *)
C28_ConflictSignalRaisedAndCleared ==
    /\ [][(DeliverNodes /\ conflictWarnings' /= {}) => conflictDetected']_vars
    /\ (conflictDetected ~> ~conflictDetected)

(* a snapshot has just been processed with a conflict on n1 and the signal *)
(* is raised                                                               *)
C28_Witness ==
    /\ conflictDetected
    /\ conflictWarnings = {"n1"}

(* C29: the value an open clock popup shows is the time until ready of its *)
(* node over the nodes and the edges delivered last.                       *)
C29_OpenPopupIsCurrent ==
    \A n \in DOMAIN clockPopup :
        (convexNodes /= None /\ convexEdges /= None)
            => clockPopup[n] = calculateTimeUntilReady(convexNodes[1], convexEdges[1], n)

(* C30: every call of getOrCreateSession in one storage context returns    *)
(* the same identity as the calls before it (the same value, with the same *)
(* id, userName and color), and a call after the first leaves the stored   *)
(* item as it was.                                                         *)
C30_SessionIdentityStable ==
    /\ [](\A i, j \in DOMAIN sessionReturned : sessionReturned[i] = sessionReturned[j])
    /\ [][(GetOrCreateSession /\ sessionReturned /= <<>>)
              => localStorage' = localStorage]_vars

(* two calls made on empty storage: the first generated the session *)
C30_Witness ==
    /\ Len(sessionReturned) >= 2
    /\ sessionReturned[1].type = "object"
    /\ sessionReturned[1].fields.id \in GeneratedIds
    /\ sessionReturned[2] = sessionReturned[1]
    /\ localStorage = Some(Stringify(sessionReturned[1]))

(* C31: when its storage is unavailable (denied, or no window),            *)
(* getOrCreateSession returns null and does not raise, and the canvas then *)
(* has no session, emits nothing and is shown to nobody.                   *)
EmitsNothing(p, sessionId) ==
    /\ session[p] = None
    /\ toServer[p] = <<>>
    /\ ~HasCursor(MapValues(relayCursors), sessionId)
    /\ \A q \in Peers :
          /\ ~HasCursor(cursors[q], sessionId)
          /\ \A i \in DOMAIN toClient[q] :
                toClient[q][i].event = "cursors:init"
                \/ toClient[q][i].data.sessionId /= sessionId

C31_NullSessionWithoutStorage ==
    storageAccess /= "available" =>
        /\ \A i \in DOMAIN sessionReturned : sessionReturned[i] = JsNull
        /\ EmitsNothing("p1", "p1")

(* the half of C31 that holds: without storage the canvas emits nothing *)
C31_SilentWithoutStorage ==
    storageAccess /= "available" => EmitsNothing("p1", "p1")

(* C32: a cursor held by a connected canvas is removed again: a peer stops *)
(* sending samples in the end, and when it does its cursor leaves the      *)
(* cursor set of every other canvas, whether or not it sent a removal      *)
(* notice.                                                                 *)
C32_SilentPeerCursorRemoved ==
    \A p, q \in Peers :
        (p /= q /\ sockets[p] = "connected" /\ HasCursor(cursors[p], q))
            ~> (sockets[p] /= "connected" \/ ~HasCursor(cursors[p], q))

(* where C32 fails: p2 is gone and the relay has swept its cursor, no      *)
(* event is in flight, and p3 still shows the cursor of p2                 *)
C32_StaleCursorKept ==
    /\ sockets["p2"] = "closed" /\ sockets["p3"] = "connected"
    /\ relayCursors = <<>>
    /\ \A p \in Peers : toServer[p] = <<>> /\ toClient[p] = <<>>
    /\ HasCursor(cursors["p3"], "p2")

(* the half of C32 that holds: a removal notice that a canvas handles      *)
(* deletes the cursor, and a sample it handles creates or replaces it      *)
C32_NoticesApplied ==
    [][\A p \in Peers : ClientReceive(p) =>
          LET ev == Head(toClient[p])
          IN  /\ ev.event = "cursor:remove" => ~HasCursor(cursors'[p], ev.data.sessionId)
              /\ ev.event = "cursor:update" =>
                    /\ cursors'[p][Len(cursors'[p])] = ev.data
                    /\ Len(SelectSeq(cursors'[p],
                           LAMBDA c : c.sessionId = ev.data.sessionId)) = 1]_vars

(* C33: on a connection the relay sends cursors:init, with the cursors it  *)
(* holds, to the new socket and to no other; a cursor:update or            *)
(* cursor:remove it receives goes, unchanged, to every open socket but the *)
(* sender's.                                                               *)
C33_RelayForwarding ==
    [][\A p \in Peers :
          /\ RelayConnection(p) =>
                /\ toClient'[p] = Append(toClient[p],
                       [event |-> "cursors:init",
                        data |-> [i \in DOMAIN relayCursors |-> relayCursors[i].data]])
                /\ \A q \in Peers \ {p} : toClient'[q] = toClient[q]
          /\ RelayReceive(p) =>
                /\ toClient'[p] = toClient[p]
                /\ \A q \in Peers \ {p} :
                      toClient'[q] = IF sockets[q] \in {"connected", "closing"}
                                     THEN Append(toClient[q], Head(toServer[p]))
                                     ELSE toClient[q]]_vars

(* a sample of p1 has reached p2 and p3, which hold it, and not p1 *)
C33_Witness ==
    /\ HasCursor(cursors["p2"], "p1") /\ HasCursor(cursors["p3"], "p1")
    /\ ~HasCursor(cursors["p1"], "p1")
    /\ toClient["p1"] = <<>> /\ sockets["p1"] = "connected"

(* C34 as stated: retryWithBackoff makes at most maxRetries + 1 calls of   *)
(* fn; it resolves with the first success and calls fn no more after it;   *)
(* and when every attempt failed it rejects with the error of the last     *)
(* attempt after exactly maxRetries + 1 calls.                             *)
AllFailed == \A i \in DOMAIN fnCalls : fnCalls[i] \in RetryErrors
IsSettled(state) == settled /= None /\ settled[1].state = state

AtMostMaxCalls == retryPc /= "idle" => Len(fnCalls) <= Max2(retryOpts.maxRetries + 1, 0)

FirstSuccessResolves ==
    /\ \A i \in DOMAIN fnCalls : fnCalls[i] = "success" =>
          i = Len(fnCalls) /\ settled = Resolved("success")
    /\ IsSettled("resolved") =>
          fnCalls /= <<>> /\ fnCalls[Len(fnCalls)] = "success"

C34_StatedRetryBound ==
    /\ AtMostMaxCalls
    /\ FirstSuccessResolves
    /\ (IsSettled("rejected") /\ AllFailed) =>
          /\ Len(fnCalls) = retryOpts.maxRetries + 1
          /\ fnCalls /= <<>> => settled = Rejected(fnCalls[Len(fnCalls)])

(* C34, amended: the count is exact only when shouldRetry accepted every   *)
(* error; an error it refuses ends the calls earlier.  retryWithBackoff    *)
(* makes at most maxRetries + 1 calls of fn; it resolves with the first    *)
(* success and calls fn no more after it; when it rejects, every attempt   *)
(* failed and it rejects with the error of the last attempt, after exactly *)
(* maxRetries + 1 calls if shouldRetry accepted every error, and after the *)
(* first error that shouldRetry refused otherwise.                         *)
AllAccepted == \A i \in DOMAIN fnCalls : fnCalls[i] \in retryOpts.shouldRetry

C34_RetryBound ==
    /\ AtMostMaxCalls
    /\ FirstSuccessResolves
    /\ IsSettled("rejected") =>
          /\ AllFailed
          /\ fnCalls /= <<>> => settled = Rejected(fnCalls[Len(fnCalls)])
          /\ AllAccepted => Len(fnCalls) = retryOpts.maxRetries + 1
          /\ ~AllAccepted =>
                /\ fnCalls[Len(fnCalls)] \notin retryOpts.shouldRetry
                /\ \A i \in 1 .. (Len(fnCalls) - 1) : fnCalls[i] \in retryOpts.shouldRetry

(* every attempt failed with an accepted error: rejected after all calls *)
C34_Witness ==
    /\ IsSettled("rejected") /\ AllAccepted
    /\ retryOpts.maxRetries = MaxMaxRetries
    /\ Len(fnCalls) = MaxMaxRetries + 1

(* C35: an error that shouldRetry refuses rejects the promise with that    *)
(* error in the same step, with no onRetry call and no wait for it, and fn *)
(* is not called after the promise has settled; onRetry has been called    *)
(* once for each retry, the i-th call with the error of the i-th attempt   *)
(* and the number i.                                                       *)
RetriesBegun == IF retryPc = "waiting" THEN attempt + 1 ELSE attempt

C35_RefusedErrorRejectsAtOnce ==
    /\ [][\A error \in RetryErrors :
             (FnRejects(error) /\ error \notin retryOpts.shouldRetry) =>
                 /\ settled' = Rejected(error)
                 /\ onRetryCalls' = onRetryCalls /\ delays' = delays]_vars
    /\ [][settled /= None => fnCalls' = fnCalls]_vars
    /\ [](retryPc /= "idle" =>
             /\ Len(onRetryCalls) = RetriesBegun /\ Len(delays) = RetriesBegun
             /\ \A i \in DOMAIN onRetryCalls : onRetryCalls[i] = <<fnCalls[i], i>>)

(* one retry was made, then an error that shouldRetry refuses came *)
C35_Witness ==
    /\ IsSettled("rejected") /\ Len(fnCalls) = 2
    /\ fnCalls[2] \notin retryOpts.shouldRetry
    /\ onRetryCalls = <<(<<fnCalls[1], 1>>)>>
    /\ retryOpts.maxRetries = 2

(* C36: no conflict is flagged for a node that this client alone writes    *)
(* and whose writes the store applies, however the snapshots caused by     *)
(* changes of other nodes and by its own writes interleave.                *)
C36_SoleWriterNeverFlagged == "n1" \notin conflictWarnings

(* C37: when the oldest call in flight fails while a later call on the     *)
(* same node is in flight, the pending record of the later write stays and *)
(* the local node keeps the later write's optimistic value.                *)
LaterWriteInFlight ==
    /\ Len(inflight) >= 2
    /\ inflight[2].id = Head(inflight).id
    /\ Head(inflight).id \in DOMAIN pendingOperationsRef

C37_EarlierFailureSparesLaterWrite ==
    [][((FieldUpdateRejected \/ StatusUpdateRejected) /\ LaterWriteInFlight) =>
          LET id == Head(inflight).id
          IN  /\ id \in DOMAIN pendingOperationsRef'
              /\ pendingOperationsRef'[id] = pendingOperationsRef[id]
              /\ nodes'[LocalIndex(id)].status = LocalNode(id).status]_vars

(* the two halves of C37, each for its own handler *)
C37_PendingRecordKept ==
    [][(FieldUpdateRejected /\ LaterWriteInFlight) =>
          Head(inflight).id \in DOMAIN pendingOperationsRef']_vars

C37_OptimisticStatusKept ==
    [][(StatusUpdateRejected /\ LaterWriteInFlight /\ inflight[2].op = "updateStatus") =>
          nodes'[LocalIndex(Head(inflight).id)].status = inflight[2].arg]_vars

(* C38: the local nodes never hold two entries with one id, nor do the     *)
(* local edges, whatever deletions, failed delete calls and snapshots      *)
(* came before.                                                            *)
C38_LocalIdsUnique ==
    /\ \A i, j \in DOMAIN nodes : nodes[i].id = nodes[j].id => i = j
    /\ \A i, j \in DOMAIN edges : edges[i].id = edges[j].id => i = j

(* the two lists of C38, each on its own *)
C38_LocalNodeIdsUnique == \A i, j \in DOMAIN nodes : nodes[i].id = nodes[j].id => i = j
C38_LocalEdgeIdsUnique == \A i, j \in DOMAIN edges : edges[i].id = edges[j].id => i = j

(* C39: when this client's updateConnectors that adds a connector to a     *)
(* node is applied, the store's array of that node holds the connector it  *)
(* added and still holds the connector another client added meanwhile.     *)
StoreHasConnector(snapshot, id, connectorId) ==
    HasConnector(snapshot[FindNode(snapshot, id)].connectors, connectorId)

AppliesAdd ==
    /\ ConnectorsUpdateResolved
    /\ Head(inflight).orig.kind = "add"

C39_ConcurrentAddsBothKept ==
    [][AppliesAdd =>
          /\ StoreHasConnector(dbNodes', Head(inflight).id, Head(inflight).orig.connector.id)
          /\ StoreHasConnector(dbNodes, Head(inflight).id, OtherConnector.id) =>
                StoreHasConnector(dbNodes', Head(inflight).id, OtherConnector.id)]_vars

(* the half of C39 that holds: the connector this client added is stored *)
C39_OwnConnectorStored ==
    [][AppliesAdd =>
          StoreHasConnector(dbNodes', Head(inflight).id,
                            Head(inflight).orig.connector.id)]_vars

(* every write of this client has been settled by the store and the        *)
(* store's latest nodes snapshot has been delivered and run through the    *)
(* sync effect                                                             *)
SettledAndDelivered ==
    /\ inflight = <<>>
    /\ ~nodesDirty
    /\ convexNodes = Some(dbNodes)

(* C40: once the write a pending record tracks has resolved and the        *)
(* store's latest snapshot has been delivered, the pending map holds no    *)
(* record, also when the write left the store unchanged and when another   *)
(* client deleted the node meanwhile.                                      *)
C40_PendingRecordsRemoved ==
    SettledAndDelivered => DOMAIN pendingOperationsRef = {}

(* C40 for nodes the store still holds: fails when the write left the      *)
(* store as the last processed snapshot had it                             *)
C40_StoredNodeRecordRemoved ==
    SettledAndDelivered =>
        \A id \in DOMAIN pendingOperationsRef : FindNode(dbNodes, id) = 0

(* C40 for nodes another client deleted: fails when the node went after    *)
(* the write was applied                                                   *)
C40_DeletedNodeRecordRemoved ==
    SettledAndDelivered =>
        \A id \in DOMAIN pendingOperationsRef : FindNode(dbNodes, id) /= 0

====
